---- MODULE Spec2Model ----
(***************************************************************************)
(* Model of the usage-event store, the renewal scoring engine, the         *)
(* behavioural (ML) trend engine, the onboarding engine and the expansion  *)
(* engine of the HubSpot renewal-health usage app.                         *)
(*                                                                         *)
(* Time is counted in whole days (a timestamp is a day number; day 0 is a  *)
(* Sunday).  Optional strings that are absent are modelled by "", which    *)
(* every code path treats like undefined (both are falsy).  An absent      *)
(* number (timestamp, seat entry, start date) is modelled by NULL.         *)
(***************************************************************************)
EXTENDS Integers, Sequences, FiniteSets, Bags, TLC

(***************************************************************************)
(* Bounds of the model                                                     *)
(***************************************************************************)
\* total number of events ever stored in one behaviour (caps the id counter)
MaxEvents == 3
\* longest list handed to batchStoreUsageEvents
MaxBatch == 2
\* the clock starts at NowInit and is advanced up to NowInit + MaxTicks
MaxTicks == 1
\* most HTTP requests in flight at once
MaxInflight == 2
\* events stored in one behaviour of the engines
MaxEngineEvents == 2
\* most events of one week in a usage history handed to the renewal engine
MaxWeekCount == 5
\* most distinct active users of a company handed to the expansion engine
MaxUsers == 8
\* most company ids in one call of a batch function
MaxIds == 2

NULL == -1
NowInit == 100

\* company keys used by the callers
Keys == {"a", "b"}

VARIABLES
  usageEvents,           \* Map<string, UsageEvent[]>; a missing key is << >>
  seatData,              \* Map<string, {licensed}>; a missing key is NULL
  onboardingStartDates,  \* Map<string, string>; a missing key is NULL
  now,                   \* the clock (Date.now()), in days
  nextId,                \* the next value randomUUID() returns
  inflight,              \* bag of the HTTP requests received and not yet handled
  sync,                  \* the batch sync call in progress, between its awaits
  tokenStore,            \* Map<string, {accessToken, refreshToken, expiresAt}>, by portal
  refreshing,            \* bag of the getHubSpotClient calls awaiting refreshAccessToken
  last,                  \* the last call made and what it returned
  log                    \* history: events stored since the last clear, by key

vars ==
  <<usageEvents, seatData, onboardingStartDates, now, nextId, inflight, sync, tokenStore,
    refreshing, last, log>>

\* no batch sync call is running
SyncIdle == [op |-> "idle", items |-> << >>, pos |-> 1, success |-> 0, failed |-> 0,
             attempted |-> << >>, outcomes |-> << >>, updates |-> << >>,
             threw |-> FALSE, returned |-> TRUE]

\* what the engines read: the three maps and the clock
DB ==
  [usageEvents |-> usageEvents, seatData |-> seatData,
   onboardingStartDates |-> onboardingStartDates, now |-> now]

(***************************************************************************)
(* Sequence helpers                                                        *)
(***************************************************************************)
Range(s) == {s[i] : i \in 1..Len(s)}

RECURSIVE SumSeq(_)
SumSeq(s) == IF s = << >> THEN 0 ELSE Head(s) + SumSeq(Tail(s))

Max(x, y) == IF x >= y THEN x ELSE y
Min(x, y) == IF x <= y THEN x ELSE y

(***************************************************************************)
(* Event store (usageEventsService)                                        *)
(***************************************************************************)

\* the key taken from the external identifier first
companyKey_externalFirst(input) ==
  IF input.externalCompanyId # "" THEN input.externalCompanyId ELSE input.companyId

\* const companyKey = input.companyId || input.externalCompanyId
companyKey(input) ==
  IF input.companyId # "" THEN input.companyId ELSE input.externalCompanyId

\* the UsageEvent built from an input
makeEvent(input, id, t) ==
  [eventId |-> id,
   companyId |-> input.companyId,
   externalCompanyId |-> input.externalCompanyId,
   eventType |-> input.eventType,
   featureName |-> input.featureName,
   timestamp |-> IF input.timestamp # NULL THEN input.timestamp ELSE t,
   userId |-> input.userId]

\* the list of the key replaced by the new event alone
pushEvent_overwrite(store, key, event) ==
  [store EXCEPT ![key] = <<event>>]

\* existingEvents.push(event); usageEvents.set(companyKey, existingEvents)
pushEvent(store, key, event) ==
  [store EXCEPT ![key] = Append(@, event)]

\* storeUsageEvent as a function of the store: the new store, the id counter
\* and either the stored event or the error thrown
storeUsageEvent(store, id, t, input) ==
  LET ErrNoKey == "Either companyId or externalCompanyId is required"
  IN
    IF companyKey(input) = ""
    THEN [store |-> store, nextId |-> id, ok |-> FALSE, error |-> ErrNoKey,
          events |-> << >>]
    ELSE [store |-> pushEvent(store, companyKey(input), makeEvent(input, id, t)),
          nextId |-> id + 1, ok |-> TRUE, error |-> "",
          events |-> <<makeEvent(input, id, t)>>]

\* events.map(event => storeUsageEvent(event)): the calls are made in list
\* order and the first throw ends the map
RECURSIVE batchStoreUsageEvents(_, _, _, _)
batchStoreUsageEvents(store, id, t, inputs) ==
  IF inputs = << >>
  THEN [store |-> store, nextId |-> id, ok |-> TRUE, error |-> "", events |-> << >>]
  ELSE LET r == storeUsageEvent(store, id, t, Head(inputs)) IN
       IF ~r.ok
       THEN r
       ELSE LET rest == batchStoreUsageEvents(r.store, r.nextId, t, Tail(inputs)) IN
            [rest EXCEPT !.events = IF rest.ok THEN r.events \o @ ELSE @]

\* getUsageEvents(companyId, days)
getUsageEventsIn(store, t, companyId, days) ==
  SelectSeq(store[companyId], LAMBDA e : e.timestamp >= t - days)

getUsageEvents(db, companyId, days) == getUsageEventsIn(db.usageEvents, db.now, companyId, days)

\* every list dropped
clearUsageEvents_all(store, companyId) == [k \in DOMAIN store |-> << >>]

\* usageEvents.delete(companyId)
clearUsageEvents(store, companyId) == [store EXCEPT ![companyId] = << >>]

\* getAllCompanyIds
getAllCompanyIds(db) == {k \in DOMAIN db.usageEvents : db.usageEvents[k] # << >>}

(***************************************************************************)
(* Sorting as Array.prototype.sort does it (stable): ascending by key      *)
(***************************************************************************)
RECURSIVE InsertPair(_, _)
InsertPair(p, s) ==
  IF s = << >> THEN <<p>>
  ELSE IF p[1] < Head(s)[1] THEN <<p>> \o s
  ELSE <<Head(s)>> \o InsertPair(p, Tail(s))

RECURSIVE SortPairs(_)
SortPairs(s) ==
  IF s = << >> THEN << >>
  ELSE InsertPair(s[Len(s)], SortPairs(SubSeq(s, 1, Len(s) - 1)))

\* the elements of s in ascending order of their keys ks, ties in the order of s
SortByKey(s, ks) ==
  LET pairs == [j \in 1..Len(s) |-> <<ks[j], s[j]>>]
      sorted == SortPairs(SubSeq(pairs, 1, Len(s)))
  IN  SubSeq([i \in 1..Len(s) |-> sorted[i][2]], 1, Len(s))

\* the elements of a set of integers in ascending order
RECURSIVE SortedSeq(_)
SortedSeq(S) ==
  IF S = {} THEN << >>
  ELSE LET m == CHOOSE x \in S : \A y \in S : x <= y
       IN  <<m>> \o SortedSeq(S \ {m})

(***************************************************************************)
(* Trend aggregator (usageEventsService)                                   *)
(***************************************************************************)
\* date.getDay(): day 0 of the model is a Sunday
getDay(ts) == ts % 7

\* weekStart.setDate(date.getDate() - date.getDay()); the week key is its date
weekKey(ts) == ts - getDay(ts)

calculateUsageTrends(db, companyId) ==
  \* calculateUsageTrends over a list of events (the 90-day window)
  LET usageTrendsOf(events) ==
        \* trend of a week against the week before it in the sorted series
        LET weekTrend(index, eventCount, previousCount) ==
              IF index > 1 /\ 10 * eventCount > 11 * previousCount THEN "increasing"
              ELSE IF index > 1 /\ 10 * eventCount < 9 * previousCount THEN "decreasing"
              ELSE "stable"
        IN
          LET sortedWeeks == SortedSeq({weekKey(e.timestamp) : e \in Range(events)})
              weekEvents(w) == SelectSeq(events, LAMBDA e : weekKey(e.timestamp) = w)
              count(i) == Len(weekEvents(sortedWeeks[i]))
          IN  [i \in 1..Len(sortedWeeks) |->
                 [period |-> sortedWeeks[i],
                  eventCount |-> count(i),
                  activeUsers |-> Cardinality({e.userId : e \in Range(weekEvents(sortedWeeks[i]))} \ {""}),
                  featuresUsed |-> Cardinality({e.featureName : e \in Range(weekEvents(sortedWeeks[i]))} \ {""}),
                  trend |-> weekTrend(i, count(i), IF i > 1 THEN count(i - 1) ELSE 0)]]
  IN
    usageTrendsOf(getUsageEvents(db, companyId, 90))

\* the distinct feature names of a list of events, in order of first appearance
RECURSIVE featureOrder(_, _)
featureOrder(events, seen) ==
  IF events = << >> THEN << >>
  ELSE LET f == Head(events).featureName IN
       IF f = "" \/ f \in seen THEN featureOrder(Tail(events), seen)
       ELSE <<f>> \o featureOrder(Tail(events), seen \cup {f})

calculateFeatureAdoption(db, companyId) ==
  \* calculateFeatureAdoption over a list of events (the 90-day window)
  LET featureAdoptionOf(events) ==
        \* Math.round of the non-negative fraction n / d  (d > 0)
        LET RoundDiv(n, d) == (2 * n + d) \div (2 * d)
        IN
          LET names == featureOrder(events, {})
              ofFeature(f) == SelectSeq(events, LAMBDA e : e.featureName = f)
              totalEvents == IF Len(events) = 0 THEN 1 ELSE Len(events)
              lastUsed(f) == CHOOSE t \in {e.timestamp : e \in Range(ofFeature(f))} :
                               \A e \in Range(ofFeature(f)) : e.timestamp <= t
              adoption == [i \in 1..Len(names) |->
                             [featureName |-> names[i],
                              usageCount |-> Len(ofFeature(names[i])),
                              lastUsed |-> lastUsed(names[i]),
                              adoptionRate |-> RoundDiv(Len(ofFeature(names[i])) * 100, totalEvents)]]
          IN  SortByKey(adoption, [i \in 1..Len(names) |-> 0 - adoption[i].usageCount])
  IN
    featureAdoptionOf(getUsageEvents(db, companyId, 90))

(***************************************************************************)
(* Renewal scoring engine (scoringService)                                 *)
(* Weights are kept in hundredths, so a weighted sum is in hundredths too. *)
(***************************************************************************)
SCORE_WEIGHTS ==
  [usageFrequency |-> 25, featureAdoption |-> 25, usageTrend |-> 20,
   recency |-> 15, consistency |-> 15]

calculateUsageFrequencyScore(eventCount) ==
  IF eventCount >= 100 THEN 100
  ELSE IF eventCount >= 50 THEN 80
  ELSE IF eventCount >= 20 THEN 60
  ELSE IF eventCount >= 10 THEN 40
  ELSE IF eventCount >= 5 THEN 20
  ELSE IF eventCount > 0 THEN 10 ELSE 0

calculateFeatureAdoptionScore(featuresUsed) ==
  IF featuresUsed >= 10 THEN 100
  ELSE IF featuresUsed >= 7 THEN 80
  ELSE IF featuresUsed >= 5 THEN 60
  ELSE IF featuresUsed >= 3 THEN 40
  ELSE IF featuresUsed >= 1 THEN 20
  ELSE 0

\* trends.slice(-4)
lastFour(s) == IF Len(s) <= 4 THEN s ELSE SubSeq(s, Len(s) - 3, Len(s))

calculateTrendScore(trends) ==
  IF Len(trends) = 0 THEN 0
  ELSE LET recentTrends == lastFour(trends)
           increasingCount == Len(SelectSeq(recentTrends, LAMBDA t : t.trend = "increasing"))
           decreasingCount == Len(SelectSeq(recentTrends, LAMBDA t : t.trend = "decreasing"))
       IN  IF increasingCount >= 3 THEN 100
           ELSE IF increasingCount >= 2 THEN 80
           ELSE IF decreasingCount <= 1 /\ increasingCount >= 1 THEN 60
           ELSE IF decreasingCount >= 2 THEN 30
           ELSE IF decreasingCount >= 3 THEN 10
           ELSE 50

\* the timestamp of sortedEvents[0] after the descending sort (events # << >>)
lastEventDate(events) ==
  CHOOSE t \in {e.timestamp : e \in Range(events)} :
    \A e \in Range(events) : e.timestamp <= t

\* Math.floor((Date.now() - lastEventDate) / day)
daysSinceLastEvent(db, events) == db.now - lastEventDate(events)

calculateRecencyScore(db, events) ==
  IF Len(events) = 0 THEN 0
  ELSE LET d == daysSinceLastEvent(db, events) IN
       IF d <= 1 THEN 100
       ELSE IF d <= 3 THEN 90
       ELSE IF d <= 7 THEN 75
       ELSE IF d <= 14 THEN 50
       ELSE IF d <= 30 THEN 25
       ELSE 10

\* With n weeks, S the sum and Q the sum of squares of the weekly counts,
\* (stdDev / avg)^2 = (n*Q - S*S) / (S*S); a threshold c/10 on the
\* coefficient of variation is compared on the squares.
calculateConsistencyScore(trends) ==
  IF Len(trends) < 2 THEN 50
  ELSE LET n == Len(trends)
           S == SumSeq([i \in 1..n |-> trends[i].eventCount])
           Q == SumSeq([i \in 1..n |-> trends[i].eventCount * trends[i].eventCount])
           cvAtMost(c) == 100 * (n * Q - S * S) <= c * c * S * S
       IN  IF S = 0 THEN 0
           ELSE IF cvAtMost(2) THEN 100
           ELSE IF cvAtMost(4) THEN 80
           ELSE IF cvAtMost(6) THEN 60
           ELSE IF cvAtMost(8) THEN 40
           ELSE 20

\* the thresholds taken on the scale 0..1 of the weights
determineRiskLevel_unitScale(score) ==
  IF score >= 75 THEN "low"
  ELSE IF score >= 50 THEN "medium"
  ELSE IF score >= 25 THEN "high"
  ELSE "critical"

\* the argument is the weighted sum in hundredths
determineRiskLevel(score) ==
  IF score >= 7500 THEN "low"
  ELSE IF score >= 5000 THEN "medium"
  ELSE IF score >= 2500 THEN "high"
  ELSE "critical"

RECURSIVE negativeRecommendations(_)
negativeRecommendations(factors) ==
  LET factorRecommendations(name) ==
        CASE name = "Usage Frequency" ->
               <<"Schedule a check-in call to understand usage blockers",
                 "Share product tips and best practices">>
          [] name = "Feature Adoption" ->
               <<"Offer personalized training on advanced features",
                 "Share relevant use cases and success stories">>
          [] name = "Usage Trend" ->
               <<"Investigate recent changes in account status",
                 "Reach out to understand declining usage">>
          [] name = "Recency" ->
               <<"Send re-engagement email with new features",
                 "Schedule urgent account review">>
          [] name = "Usage Consistency" ->
               <<"Help establish regular usage workflows",
                 "Identify and remove friction points">>
          [] OTHER -> << >>
  IN
    IF factors = << >> THEN << >>
    ELSE (IF Head(factors).impact = "negative"
          THEN factorRecommendations(Head(factors).name) ELSE << >>)
         \o negativeRecommendations(Tail(factors))

\* recommendations.slice(0, 5)
firstFive(s) == IF Len(s) <= 5 THEN s ELSE SubSeq(s, 1, 5)

\* the urgency message pushed at the end instead of unshifted to the front
generateRecommendations_append(factors, riskLevel) ==
  LET recommendations == negativeRecommendations(factors)
      withUrgency ==
        IF riskLevel = "critical"
        THEN recommendations \o <<"URGENT: Immediate executive outreach required">>
        ELSE IF riskLevel = "high"
        THEN recommendations \o <<"Priority: Schedule renewal discussion soon">>
        ELSE recommendations
  IN  firstFive(withUrgency)

\* generateRecommendations: two entries per negative factor, the urgency
\* message unshifted, slice(0, 5)
generateRecommendations(factors, riskLevel) ==
  LET recommendations == negativeRecommendations(factors)
      withUrgency ==
        IF riskLevel = "critical"
        THEN <<"URGENT: Immediate executive outreach required">> \o recommendations
        ELSE IF riskLevel = "high"
        THEN <<"Priority: Schedule renewal discussion soon">> \o recommendations
        ELSE recommendations
  IN  firstFive(withUrgency)

scoreFactor(name, value, weight, description) ==
  LET factorImpact(value_) ==
        IF value_ >= 70 THEN "positive" ELSE IF value_ >= 40 THEN "neutral" ELSE "negative"
  IN
    [name |-> name, value |-> value, weight |-> weight,
     impact |-> factorImpact(value), description |-> description]

\* the five factors in the order they are pushed
renewalFactors(db, events, trends, featureAdoption) ==
  LET getConsistencyDescription(score) ==
        IF score >= 80 THEN [text |-> "Very consistent usage pattern", n |-> 0]
        ELSE IF score >= 60 THEN [text |-> "Mostly consistent usage", n |-> 0]
        ELSE IF score >= 40 THEN [text |-> "Somewhat irregular usage", n |-> 0]
        ELSE [text |-> "Highly irregular usage pattern", n |-> 0]
  IN
    LET getRecencyDescription(db_, events_) ==
          IF Len(events_) = 0 THEN [text |-> "No recent activity", n |-> 0]
          ELSE LET daysSince == daysSinceLastEvent(db_, events_) IN
               IF daysSince = 0 THEN [text |-> "Active today", n |-> 0]
               ELSE IF daysSince = 1 THEN [text |-> "Active yesterday", n |-> 1]
               ELSE [text |-> "Last active N days ago", n |-> daysSince]
    IN
      LET getTrendDescription(trends_) ==
            IF Len(trends_) = 0 THEN [text |-> "No usage data available", n |-> 0]
            ELSE [text |-> "Recent usage is " \o trends_[Len(trends_)].trend, n |-> 0]
      IN
        <<scoreFactor("Usage Frequency", calculateUsageFrequencyScore(Len(events)),
                      SCORE_WEIGHTS.usageFrequency,
                      [text |-> "N events in the last 90 days", n |-> Len(events)]),
          scoreFactor("Feature Adoption", calculateFeatureAdoptionScore(Len(featureAdoption)),
                      SCORE_WEIGHTS.featureAdoption,
                      [text |-> "N features adopted", n |-> Len(featureAdoption)]),
          scoreFactor("Usage Trend", calculateTrendScore(trends),
                      SCORE_WEIGHTS.usageTrend, getTrendDescription(trends)),
          scoreFactor("Recency", calculateRecencyScore(db, events),
                      SCORE_WEIGHTS.recency, getRecencyDescription(db, events)),
          scoreFactor("Usage Consistency", calculateConsistencyScore(trends),
                      SCORE_WEIGHTS.consistency,
                      getConsistencyDescription(calculateConsistencyScore(trends)))>>

\* the fraction dropped instead of rounded
roundScore_floor(totalScore) == totalScore \div 100

\* Math.round(totalScore)
roundScore(totalScore) == (totalScore + 50) \div 100

\* calculateRenewalHealthScore; calculatedAt is the clock
calculateRenewalHealthScore(db, companyId) ==
  \* totalScore, accumulated factor by factor (in hundredths)
  LET totalScoreOf(factors) ==
        SumSeq([i \in 1..Len(factors) |-> factors[i].value * factors[i].weight])
  IN
    LET events == getUsageEvents(db, companyId, 90)
        trends == calculateUsageTrends(db, companyId)
        featureAdoption == calculateFeatureAdoption(db, companyId)
        factors == renewalFactors(db, events, trends, featureAdoption)
        totalScore == totalScoreOf(factors)
        riskLevel == determineRiskLevel(totalScore)
    IN  [companyId |-> companyId,
         score |-> roundScore(totalScore),
         riskLevel |-> riskLevel,
         factors |-> factors,
         recommendations |-> generateRecommendations(factors, riskLevel),
         calculatedAt |-> db.now]

(***************************************************************************)
(* Behavioural trend engine (mlTrendService)                               *)
(* A fraction is kept exactly as [n, d] (numerator, positive denominator). *)
(* With S the sum and Q the sum of squares of the 12 weekly counts:        *)
(*   mean = S / 12,  (stdDev / mean)^2 = (12*Q - S*S) / (S*S),             *)
(*   slope = (12*SumXY - 66*S) / 1716.                                     *)
(* Thresholds on means, slope and volatility are compared on these exact   *)
(* integers (volatility on its square).                                    *)
(***************************************************************************)
WEEKS == 12

COHORTS ==
  [power_user |-> "Power User", active |-> "Active", casual |-> "Casual",
   at_risk |-> "At Risk", dormant |-> "Dormant"]

\* Math.floor((now - eventTime) / msPerWeek)
weeksAgoOf(db, ts) == (db.now - ts) \div 7

\* getWeeklyEventCounts: index i holds JS index i - 1 (most recent week last)
getWeeklyEventCounts(db, events) ==
  [i \in 1..WEEKS |->
     Len(SelectSeq(events, LAMBDA e :
           /\ weeksAgoOf(db, e.timestamp) >= 0
           /\ weeksAgoOf(db, e.timestamp) < WEEKS
           /\ WEEKS - weeksAgoOf(db, e.timestamp) = i))]

sumOf(data) == SumSeq(data)
sumXOf(data) == SumSeq([i \in 1..Len(data) |-> i - 1])

\* n * sumX2 - sumX * sumX
regressionDenominator(data) ==
  LET sumX2Of(data_) == SumSeq([i \in 1..Len(data_) |-> (i - 1) * (i - 1)])
  IN
    Len(data) * sumX2Of(data) - sumXOf(data) * sumXOf(data)

\* calculateLinearRegression: the slope as a fraction
regressionSlope(data) ==
  LET sumXYOf(data_) == SumSeq([i \in 1..Len(data_) |-> (i - 1) * data_[i]])
  IN
    IF Len(data) < 2 \/ regressionDenominator(data) = 0 THEN [n |-> 0, d |-> 1]
    ELSE [n |-> Len(data) * sumXYOf(data) - sumXOf(data) * sumOf(data),
          d |-> regressionDenominator(data)]

\* n * sum of squared deviations from the mean, times n: n*Q - S*S
devN(data) ==
  LET sumSqOf(data_) == SumSeq([i \in 1..Len(data_) |-> data_[i] * data_[i]])
  IN
    Len(data) * sumSqOf(data) - sumOf(data) * sumOf(data)

\* calculateVolatilityIndex, squared: min(stdDev / mean, 1)^2
volatilitySquared(data) ==
  IF Len(data) < 2 \/ sumOf(data) = 0 THEN [n |-> 0, d |-> 1]
  ELSE [n |-> Min(devN(data), sumOf(data) * sumOf(data)),
        d |-> sumOf(data) * sumOf(data)]

\* volatility < c / 10
volatilityBelow(vol2, c) == 100 * vol2.n < c * c * vol2.d

Abs(x) == IF x < 0 THEN 0 - x ELSE x

\* exact fractions [n, d] with d > 0
RECURSIVE GCD(_, _)
GCD(x, y) == IF y = 0 THEN x ELSE GCD(y, x % y)

fracNorm(f) ==
  LET g == GCD(Abs(f.n), f.d) IN [n |-> f.n \div g, d |-> f.d \div g]

RECURSIVE fracSum(_)
fracSum(fs) ==
  \* over the least common denominator, which keeps the products small
  LET fracAdd(f, g) ==
        LET c == GCD(f.d, g.d)
        IN  fracNorm([n |-> f.n * (g.d \div c) + g.n * (f.d \div c), d |-> (f.d \div c) * g.d])
  IN
    IF fs = << >> THEN [n |-> 0, d |-> 1] ELSE fracAdd(fracNorm(Head(fs)), fracSum(Tail(fs)))

\* f > k for an integer k
fracAbove(f, k) == f.n > k * f.d

\* calculateTrendStrength: min(|slope| / mean * 100, 100)
calculateTrendStrength(data, slope) ==
  IF Len(data) < 2 \/ sumOf(data) = 0 THEN [n |-> 0, d |-> 1]
  ELSE IF Abs(slope.n) * Len(data) >= slope.d * sumOf(data) THEN [n |-> 100, d |-> 1]
  ELSE [n |-> Abs(slope.n) * Len(data) * 100, d |-> slope.d * sumOf(data)]

\* calculateWeeklyDeltas: one fraction per pair of consecutive weeks
calculateWeeklyDeltas(data) ==
  [i \in 1..(Len(data) - 1) |->
     IF data[i] = 0 THEN [n |-> IF data[i + 1] > 0 THEN 100 ELSE 0, d |-> 1]
     ELSE [n |-> (data[i + 1] - data[i]) * 100, d |-> data[i]]]

\* calculate7DayMovingAverage: (recent / 7) / (older / 83) * 100
calculate7DayMovingAverage(db, events) ==
  LET recent == Len(SelectSeq(events, LAMBDA e : db.now - e.timestamp <= 7))
      older == Len(SelectSeq(events, LAMBDA e :
                     db.now - e.timestamp > 7 /\ db.now - e.timestamp <= 90))
  IN  IF older = 0 THEN [n |-> IF recent > 0 THEN 100 ELSE 0, d |-> 1]
      ELSE [n |-> recent * 83 * 100, d |-> 7 * older]

\* weeklyData.slice(-4), summed
recentSum(data) == SumSeq(SubSeq(data, Len(data) - 3, Len(data)))

\* an early return for a company without any event
classifyBehavioralTrend_emptyStable(slope, vol2, weeklyData) ==
  LET S == sumOf(weeklyData)
      R == recentSum(weeklyData)
  IN  IF S = 0 THEN "stabilizing"
      ELSE IF R < 8 /\ S < 60 THEN "near_abandonment"
      ELSE IF slope.n < (0 - 2) * slope.d /\ 6 * R < S THEN "sharp_decline"
      ELSE IF 2 * slope.n < 0 - slope.d /\ 15 * R < 4 * S THEN "soft_decline"
      ELSE IF slope.n > 2 * slope.d /\ 30 * R > 13 * S THEN "accelerating_usage"
      ELSE IF 2 * slope.n > slope.d /\ volatilityBelow(vol2, 5) THEN "healthy_growth"
      ELSE "stabilizing"

\* classifyBehavioralTrend: mean = S/12, recentMean = R/4
classifyBehavioralTrend(slope, vol2, weeklyData) ==
  LET S == sumOf(weeklyData)
      R == recentSum(weeklyData)
  IN  IF R < 8 /\ S < 60 THEN "near_abandonment"
      ELSE IF slope.n < (0 - 2) * slope.d /\ 6 * R < S THEN "sharp_decline"
      ELSE IF 2 * slope.n < 0 - slope.d /\ 15 * R < 4 * S THEN "soft_decline"
      ELSE IF slope.n > 2 * slope.d /\ 30 * R > 13 * S THEN "accelerating_usage"
      ELSE IF 2 * slope.n > slope.d /\ volatilityBelow(vol2, 5) THEN "healthy_growth"
      ELSE "stabilizing"

\* calculateTrendScore of the trend engine: the volatility is taken to three
\* decimals
mlTrendScore(slope, vol2, weeklyData, rSquared) ==
  \* the score of calculateTrendScore before the volatility is taken off:
  \* 50, the slope part, the recent-activity part and the rSquared bonus
  LET trendScoreBase(slope_, weeklyData_, rSquared_) ==
        LET S == sumOf(weeklyData_)
            R == recentSum(weeklyData_)
            slopePart ==
              IF slope_.n > 0
              THEN (IF slope_.n * 10 >= 30 * slope_.d THEN [n |-> 30, d |-> 1]
                    ELSE [n |-> slope_.n * 10, d |-> slope_.d])
              ELSE (IF slope_.n * 10 <= (0 - 30) * slope_.d THEN [n |-> 0 - 30, d |-> 1]
                    ELSE [n |-> slope_.n * 10, d |-> slope_.d])
            \* recentRatio = (R / 4) / (S / 12) = 3R / S
            recentPart ==
              IF S = 0 THEN [n |-> 0, d |-> 1]
              ELSE IF 3 * R > S
              THEN (IF 3 * R - S >= S THEN [n |-> 20, d |-> 1] ELSE [n |-> 20 * (3 * R - S), d |-> S])
              ELSE [n |-> 0 - 20 * (S - 3 * R), d |-> S]
        IN  fracSum(<<[n |-> 50, d |-> 1], slopePart, recentPart,
                      [n |-> 10 * rSquared_.n, d |-> rSquared_.d]>>)
  IN
    \* Math.round(a - 20 * y / 1000) for a fraction a and thousandths y
    LET roundLessVolatility(a, y) ==
          LET whole == a.n \div a.d
              rest == a.n % a.d
              yi == y \div 50
              yf == y % 50
          IN  whole - yi + ((50 * rest + 25 * a.d - yf * a.d) \div (50 * a.d))
    IN
      \* Math.sqrt of a number in [0, 1], in thousandths, rounded down
      LET sqrtThousandths(f) ==
            LET N == (1000000 * f.n) \div f.d
            IN  CHOOSE x \in 0..1000 : x * x <= N /\ (x + 1) * (x + 1) > N
      IN
        Max(0, Min(100, roundLessVolatility(trendScoreBase(slope, weeklyData, rSquared),
                                            sqrtThousandths(vol2))))

\* determineUsageSignature
determineUsageSignature(weeklyData, vol2, slope) ==
  LET S == sumOf(weeklyData) IN
  IF S >= 20 * WEEKS /\ volatilityBelow(vol2, 3) /\ slope.n >= 0 THEN "cluster_power_stable"
  ELSE IF S >= 20 * WEEKS /\ ~volatilityBelow(vol2, 3) THEN "cluster_power_volatile"
  ELSE IF S >= 10 * WEEKS /\ slope.n > 0 THEN "cluster_growing"
  ELSE IF S >= 10 * WEEKS /\ slope.n < 0 THEN "cluster_declining"
  ELSE IF S >= 5 * WEEKS /\ volatilityBelow(vol2, 5) THEN "cluster_casual_stable"
  ELSE IF S >= 5 * WEEKS THEN "cluster_casual_volatile"
  ELSE IF S > 0 THEN "cluster_minimal"
  ELSE "cluster_inactive"

\* determineCohort of the mean sum / count
determineCohort(sum, count) ==
  IF sum >= 20 * count THEN COHORTS.power_user
  ELSE IF sum >= 10 * count THEN COHORTS.active
  ELSE IF sum >= 5 * count THEN COHORTS.casual
  ELSE IF sum >= count THEN COHORTS.at_risk
  ELSE COHORTS.dormant

cohortRank(cohort) ==
  CASE cohort = COHORTS.power_user -> 4
    [] cohort = COHORTS.active -> 3
    [] cohort = COHORTS.casual -> 2
    [] cohort = COHORTS.at_risk -> 1
    [] OTHER -> 0

\* drift only when the cohort changed by more than one level
detectCohortDrift_twoLevels(weeklyData) ==
  LET previousCohort == determineCohort(SumSeq(SubSeq(weeklyData, 1, 8)), 8)
      currentCohort == determineCohort(recentSum(weeklyData), 4)
      previousRank == cohortRank(previousCohort)
      currentRank == cohortRank(currentCohort)
  IN  [previousCohort |-> previousCohort,
       currentCohort |-> currentCohort,
       driftDetected |-> Abs(previousRank - currentRank) > 1 /\ currentRank < previousRank]

\* detectCohortDrift
detectCohortDrift(weeklyData) ==
  LET previousCohort == determineCohort(SumSeq(SubSeq(weeklyData, 1, 8)), 8)
      currentCohort == determineCohort(recentSum(weeklyData), 4)
      previousRank == cohortRank(previousCohort)
      currentRank == cohortRank(currentCohort)
  IN  [previousCohort |-> previousCohort,
       currentCohort |-> currentCohort,
       driftDetected |-> Abs(previousRank - currentRank) >= 1 /\ currentRank < previousRank]

\* calculateFeatureTrends
calculateFeatureTrends(db, companyId) ==
  \* breakdown.sort(...).slice(0, 10)
  LET firstTen(s) == IF Len(s) <= 10 THEN s ELSE SubSeq(s, 1, 10)
  IN
    LET events == getUsageEvents(db, companyId, 90)
        names == featureOrder(events, {})
        ofFeature(f) == SelectSeq(events, LAMBDA e : e.featureName = f)
        slopeOf(f) == regressionSlope(getWeeklyEventCounts(db, ofFeature(f)))
        entry(f, slope) ==
          [featureName |-> f,
           slope |-> slope,
           usageCount |-> Len(ofFeature(f)),
           trendDirection |->
             IF 10 * slope.n > 3 * slope.d THEN "up"
             ELSE IF 10 * slope.n < (0 - 3) * slope.d THEN "down"
             ELSE "stable"]
        breakdown == [i \in 1..Len(names) |->
                        CHOOSE r \in {entry(names[i], sl) : sl \in {slopeOf(names[i])}} : TRUE]
    IN  firstTen(SortByKey(breakdown, [i \in 1..Len(names) |-> 0 - breakdown[i].usageCount]))

\* calculateMLUsageTrend; volatilityIndex is given by its square.  Each const
\* of the function is computed once and then used as a value.
calculateMLUsageTrend(db, companyId) ==
  \* rSquared of calculateLinearRegression.  The predictions are those of the
  \* least-squares line, so ssRes = ssTot - slope^2 * Sxx and
  \* 1 - ssRes / ssTot = slope^2 * Sxx / Syy, with Sxx = denominator / n and
  \* Syy = devN / n; the result is clamped to [0, 1].
  LET rSquaredOf(data) ==
        IF Len(data) < 2 \/ regressionDenominator(data) = 0 \/ devN(data) = 0 THEN [n |-> 0, d |-> 1]
        ELSE LET s == fracNorm(regressionSlope(data))
                 r == fracNorm([n |-> s.n * s.n * regressionDenominator(data),
                                d |-> s.d * s.d * devN(data)])
             IN  IF r.n > r.d THEN [n |-> 1, d |-> 1] ELSE r
  IN
    LET result(events, weeklyData, slope, vol2) ==
          [companyId |-> companyId,
           trendScore |-> mlTrendScore(slope, vol2, weeklyData, rSquaredOf(weeklyData)),
           classification |-> classifyBehavioralTrend(slope, vol2, weeklyData),
           volatilityIndexSquared |-> vol2,
           trendDirection |-> slope,
           trendStrength |-> calculateTrendStrength(weeklyData, slope),
           usageSignature |-> determineUsageSignature(weeklyData, vol2, slope),
           cohortDrift |-> detectCohortDrift(weeklyData),
           weeklyDeltas |-> calculateWeeklyDeltas(weeklyData),
           movingAverage |-> calculate7DayMovingAverage(db, events),
           featureBreakdown |-> calculateFeatureTrends(db, companyId),
           calculatedAt |-> db.now]
        fromWeeklyData(events, weeklyData) ==
          CHOOSE r \in {result(events, weeklyData, slope, vol2) :
                          slope \in {regressionSlope(weeklyData)},
                          vol2 \in {volatilitySquared(weeklyData)}} : TRUE
        fromEvents(events) ==
          CHOOSE r \in {fromWeeklyData(events, weeklyData) :
                          weeklyData \in {getWeeklyEventCounts(db, events)}} : TRUE
    IN  CHOOSE r \in {fromEvents(events) : events \in {getUsageEvents(db, companyId, 90)}} : TRUE

(***************************************************************************)
(* Onboarding engine (onboardingService)                                   *)
(* Milestone weights are kept in hundredths.                               *)
(***************************************************************************)
\* the template with the weights of report_generated and advanced_feature_used
\* exchanged
DEFAULT_MILESTONES_lightReport ==
  <<[name |-> "first_login", expectedByDay |-> 1, isAhaMoment |-> FALSE, weight |-> 10],
    [name |-> "profile_setup", expectedByDay |-> 3, isAhaMoment |-> FALSE, weight |-> 10],
    [name |-> "first_feature_use", expectedByDay |-> 3, isAhaMoment |-> TRUE, weight |-> 15],
    [name |-> "data_import", expectedByDay |-> 7, isAhaMoment |-> FALSE, weight |-> 10],
    [name |-> "team_member_invited", expectedByDay |-> 7, isAhaMoment |-> FALSE, weight |-> 10],
    [name |-> "integration_connected", expectedByDay |-> 14, isAhaMoment |-> TRUE, weight |-> 15],
    [name |-> "first_workflow_created", expectedByDay |-> 14, isAhaMoment |-> TRUE, weight |-> 15],
    [name |-> "report_generated", expectedByDay |-> 21, isAhaMoment |-> FALSE, weight |-> 5],
    [name |-> "advanced_feature_used", expectedByDay |-> 30, isAhaMoment |-> TRUE, weight |-> 10]>>

DEFAULT_MILESTONES ==
  <<[name |-> "first_login", expectedByDay |-> 1, isAhaMoment |-> FALSE, weight |-> 10],
    [name |-> "profile_setup", expectedByDay |-> 3, isAhaMoment |-> FALSE, weight |-> 10],
    [name |-> "first_feature_use", expectedByDay |-> 3, isAhaMoment |-> TRUE, weight |-> 15],
    [name |-> "data_import", expectedByDay |-> 7, isAhaMoment |-> FALSE, weight |-> 10],
    [name |-> "team_member_invited", expectedByDay |-> 7, isAhaMoment |-> FALSE, weight |-> 10],
    [name |-> "integration_connected", expectedByDay |-> 14, isAhaMoment |-> TRUE, weight |-> 15],
    [name |-> "first_workflow_created", expectedByDay |-> 14, isAhaMoment |-> TRUE, weight |-> 15],
    [name |-> "report_generated", expectedByDay |-> 21, isAhaMoment |-> FALSE, weight |-> 10],
    [name |-> "advanced_feature_used", expectedByDay |-> 30, isAhaMoment |-> TRUE, weight |-> 5]>>

\* EVENT_TO_MILESTONE[x]; "" when x is not a key
EVENT_TO_MILESTONE(x) ==
  CASE x = "login" -> "first_login"
    [] x = "profile_update" -> "profile_setup"
    [] x = "feature_use" -> "first_feature_use"
    [] x = "data_import" -> "data_import"
    [] x = "team_invite" -> "team_member_invited"
    [] x = "integration_setup" -> "integration_connected"
    [] x = "workflow_create" -> "first_workflow_created"
    [] x = "report_generate" -> "report_generated"
    [] x = "advanced_feature" -> "advanced_feature_used"
    [] OTHER -> ""

\* onboardingStartDates.get(companyId) || null
getOnboardingStartDate(db, companyId) == db.onboardingStartDates[companyId]

\* TRUE when calculateOnboardingHealthScore infers the start date from events
infersStartDate(db, companyId, onboardingStartDate) ==
  /\ onboardingStartDate = NULL
  /\ getOnboardingStartDate(db, companyId) = NULL
  /\ Len(getUsageEvents(db, companyId, 365)) > 0

\* the start date inferred from the first event
inferredStartDate(db, companyId) ==
  \* sortedEvents[0].timestamp after the ascending sort (events # << >>)
  LET firstEventDate(events) ==
        CHOOSE t \in {e.timestamp : e \in Range(events)} :
          \A e \in Range(events) : t <= e.timestamp
  IN
    firstEventDate(getUsageEvents(db, companyId, 365))

\* the stored start date taken before the explicit one
onboardingStartOf_storedFirst(db, companyId, onboardingStartDate) ==
  IF getOnboardingStartDate(db, companyId) # NULL THEN getOnboardingStartDate(db, companyId)
  ELSE IF onboardingStartDate # NULL THEN onboardingStartDate
  ELSE IF Len(getUsageEvents(db, companyId, 365)) > 0 THEN inferredStartDate(db, companyId)
  ELSE db.now

\* the start date calculateOnboardingHealthScore works with
onboardingStartOf(db, companyId, onboardingStartDate) ==
  IF onboardingStartDate # NULL THEN onboardingStartDate
  ELSE IF getOnboardingStartDate(db, companyId) # NULL THEN getOnboardingStartDate(db, companyId)
  ELSE IF Len(getUsageEvents(db, companyId, 365)) > 0 THEN inferredStartDate(db, companyId)
  ELSE db.now

\* the time of the call persisted instead of the inferred start date
onboardingDatesAfter_now(db, companyId, onboardingStartDate) ==
  IF infersStartDate(db, companyId, onboardingStartDate)
  THEN [db.onboardingStartDates EXCEPT ![companyId] = db.now]
  ELSE db.onboardingStartDates

\* the onboardingStartDates map after calculateOnboardingHealthScore
onboardingDatesAfter(db, companyId, onboardingStartDate) ==
  IF infersStartDate(db, companyId, onboardingStartDate)
  THEN [db.onboardingStartDates EXCEPT ![companyId] = inferredStartDate(db, companyId)]
  ELSE db.onboardingStartDates

\* evaluateMilestones
evaluateMilestones(events, startDate) ==
  \* the completion map built by the forEach over the events: the timestamp of
  \* the first event, in list order, that maps to the milestone (NULL if none)
  LET milestoneCompletion(events_, milestoneName) ==
        LET hits == SelectSeq(events_, LAMBDA e :
                       \/ EVENT_TO_MILESTONE(e.eventType) = milestoneName
                       \/ (e.featureName # "" /\ EVENT_TO_MILESTONE(e.featureName) = milestoneName))
        IN  IF hits = << >> THEN NULL ELSE Head(hits).timestamp
  IN
    [i \in 1..Len(DEFAULT_MILESTONES) |->
       LET m == DEFAULT_MILESTONES[i]
           completedAt == milestoneCompletion(events, m.name)
       IN  [name |-> m.name,
            completed |-> completedAt # NULL,
            completedAt |-> completedAt,
            expectedByDay |-> m.expectedByDay,
            expectedDate |-> startDate + m.expectedByDay,
            isAhaMoment |-> m.isAhaMoment,
            weight |-> m.weight]]

\* Math.round of the fraction n / d, d > 0, n of either sign
Round(n, d) == (2 * n + d) \div (2 * d)

\* the coverage without its cap at 100
calculateMilestoneCoverage_noCap(milestones, daysSinceOnboarding) ==
  LET relevantMilestones ==
        SelectSeq(milestones, LAMBDA m : m.expectedByDay <= daysSinceOnboarding \/ m.completed)
      totalWeight == SumSeq([i \in 1..Len(relevantMilestones) |-> relevantMilestones[i].weight * 10])
      completedWeight ==
        SumSeq([i \in 1..Len(relevantMilestones) |->
                  LET m == relevantMilestones[i] IN
                  IF ~m.completed THEN 0
                  ELSE m.weight * 10 + (IF m.completedAt < m.expectedDate THEN m.weight ELSE 0)])
  IN  IF Len(relevantMilestones) = 0
      THEN (IF \E i \in 1..Len(milestones) : milestones[i].completed THEN 70 ELSE 50)
      ELSE IF totalWeight = 0 THEN 50
      ELSE Round(completedWeight * 100, totalWeight)

\* calculateMilestoneCoverage; weights in thousandths so that the 10% bonus
\* of a weight is a whole number
calculateMilestoneCoverage(milestones, daysSinceOnboarding) ==
  LET relevantMilestones ==
        SelectSeq(milestones, LAMBDA m : m.expectedByDay <= daysSinceOnboarding \/ m.completed)
      totalWeight == SumSeq([i \in 1..Len(relevantMilestones) |-> relevantMilestones[i].weight * 10])
      completedWeight ==
        SumSeq([i \in 1..Len(relevantMilestones) |->
                  LET m == relevantMilestones[i] IN
                  IF ~m.completed THEN 0
                  ELSE m.weight * 10 + (IF m.completedAt < m.expectedDate THEN m.weight ELSE 0)])
  IN  IF Len(relevantMilestones) = 0
      THEN (IF \E i \in 1..Len(milestones) : milestones[i].completed THEN 70 ELSE 50)
      ELSE IF totalWeight = 0 THEN 50
      ELSE Min(100, Round(completedWeight * 100, totalWeight))

\* calculateTimeToFirstValue: << >> is null, <<d>> is d days
calculateTimeToFirstValue(milestones, startDate) ==
  LET completedAhaMoments == SelectSeq(milestones, LAMBDA m : m.isAhaMoment /\ m.completed)
      firstAhaTime == CHOOSE t \in {m.completedAt : m \in Range(completedAhaMoments)} :
                        \A m \in Range(completedAhaMoments) : t <= m.completedAt
  IN  IF Len(completedAhaMoments) = 0 THEN << >> ELSE <<firstAhaTime - startDate>>

completedCount(milestones) == Len(SelectSeq(milestones, LAMBDA m : m.completed))

\* calculateOnboardingForecast.  The forecast assigned from paceMultiplier and
\* activityTrend is overwritten on both branches, so only the branches remain.
\* baseProgress = 100*c/9; below day 30 the sum baseProgress +
\* ((30-d)/d) * baseProgress * 0.5 is 100*c*(d+30) / (18*d).
\* At d = 0 the quotient (30-d)/d is Infinity, which "|| 0" leaves alone:
\* Infinity * 0 is NaN, Infinity * positive is Infinity.
calculateOnboardingForecast(milestones, daysSinceOnboarding) ==
  LET c == completedCount(milestones)
      total == Len(milestones)
      d == daysSinceOnboarding
  IN  IF d >= 30 THEN [nan |-> FALSE, value |-> Max(0, Min(100, Round(100 * c, total)))]
      ELSE IF d = 0
      THEN (IF c = 0 THEN [nan |-> TRUE, value |-> 0] ELSE [nan |-> FALSE, value |-> 100])
      ELSE IF d > 0
      THEN [nan |-> FALSE,
            value |-> Max(0, Min(100, Round(100 * c * (d + 30), 2 * total * d)))]
      ELSE [nan |-> FALSE,
            value |-> Max(0, Min(100, Round(0 - 100 * c * (d + 30), 2 * total * (0 - d))))]

\* min(daysSinceOnboarding / 30 * 100, 100), times 30
expectedProgress30(daysSinceOnboarding) == Min(100 * daysSinceOnboarding, 3000)

\* the status without the check of the critical milestones
determineOnboardingStatus_neverBlocked(db, milestoneCoverage, daysSinceOnboarding, milestones) ==
  LET c == completedCount(milestones)
      total == Len(milestones)
      e30 == expectedProgress30(daysSinceOnboarding)
  IN  IF 100 * c * 30 * 10 >= total * e30 * 8 \/ milestoneCoverage >= 70 THEN "on_track"
      ELSE IF daysSinceOnboarding > 14 /\ 100 * c * 30 * 2 < total * e30 THEN "at_risk"
      ELSE "behind"

\* determineOnboardingStatus; actualProgress = 100*c/9
determineOnboardingStatus(db, milestoneCoverage, daysSinceOnboarding, milestones) ==
  LET c == completedCount(milestones)
      total == Len(milestones)
      criticalBlocked ==
        \E i \in 1..Len(milestones) :
          /\ milestones[i].weight >= 15
          /\ ~milestones[i].completed
          /\ db.now - milestones[i].expectedDate > 7
      e30 == expectedProgress30(daysSinceOnboarding)
  IN  IF criticalBlocked THEN "blocked"
      ELSE IF 100 * c * 30 * 10 >= total * e30 * 8 \/ milestoneCoverage >= 70 THEN "on_track"
      ELSE IF daysSinceOnboarding > 14 /\ 100 * c * 30 * 2 < total * e30 THEN "at_risk"
      ELSE "behind"

\* calculateOverallOnboardingScore; the sum is kept in hundredths, the
\* aha-moment ratio (reached / total * 100) * 25 as 2500 * reached / total
calculateOverallOnboardingScore(milestoneCoverage, timeToFirstValue, ahaMomentsReached, ahaMomentsTotal, status, daysSinceOnboarding) ==
  LET statusScores(status_) ==
        CASE status_ = "on_track" -> 100
          [] status_ = "behind" -> 60
          [] status_ = "blocked" -> 30
          [] status_ = "at_risk" -> 20
  IN
    LET ttfvPart ==
          IF timeToFirstValue # << >>
          THEN LET t == timeToFirstValue[1] IN
               20 * (IF t <= 3 THEN 100 ELSE IF t <= 7 THEN 80 ELSE IF t <= 14 THEN 60
                     ELSE IF t <= 21 THEN 40 ELSE 20)
          ELSE IF daysSinceOnboarding < 7 THEN 50 * 20 ELSE 0
        \* numerator over the denominator ahaMomentsTotal (1 when there is none)
        ahaDen == IF ahaMomentsTotal > 0 THEN ahaMomentsTotal ELSE 1
        ahaNum == IF ahaMomentsTotal > 0 THEN 2500 * ahaMomentsReached ELSE 50 * 25
        sumNum == (milestoneCoverage * 40 + ttfvPart + statusScores(status) * 15) * ahaDen + ahaNum
    IN  Max(0, Min(100, Round(sumNum, 100 * ahaDen)))

\* generateOnboardingRecommendations; a message that quotes a milestone name
\* carries it in arg
generateOnboardingRecommendations(db, milestones, status, daysSinceOnboarding) ==
  LET msg(t) == [text |-> t, arg |-> ""]
      statusPart ==
        IF status = "blocked"
        THEN <<msg("URGENT: Schedule a call to identify and remove blockers"),
               msg("Review support tickets for common issues")>>
        ELSE IF status = "at_risk"
        THEN <<msg("Immediate outreach required - customer may abandon onboarding"),
               msg("Consider assigning dedicated onboarding specialist")>>
        ELSE IF status = "behind"
        THEN <<msg("Send reminder emails about incomplete setup steps")>>
        ELSE << >>
      incompleteMilestones == SelectSeq(milestones, LAMBDA m : ~m.completed)
      incompleteAha == SelectSeq(incompleteMilestones, LAMBDA m : m.isAhaMoment)
      ahaPart ==
        IF Len(incompleteAha) > 0
        THEN <<[text |-> "Focus on achieving NAME - key activation milestone",
                arg |-> incompleteAha[1].name]>>
        ELSE << >>
      overdueMilestones == SelectSeq(incompleteMilestones, LAMBDA m : db.now > m.expectedDate)
      overduePart ==
        IF Len(overdueMilestones) > 0
        THEN <<[text |-> "Overdue: NAME should have been completed",
                arg |-> overdueMilestones[1].name]>>
        ELSE << >>
      timePart ==
        IF daysSinceOnboarding < 7
        THEN <<msg("Schedule kickoff call if not already done"),
               msg("Share quick start guide and video tutorials")>>
        ELSE IF daysSinceOnboarding < 14
        THEN <<msg("Offer live training session"),
               msg("Check in on initial experience and questions")>>
        ELSE IF daysSinceOnboarding < 30
        THEN <<msg("Review feature adoption and suggest advanced use cases")>>
        ELSE << >>
  IN  firstFive(statusPart \o ahaPart \o overduePart \o timePart)

\* the value calculateOnboardingHealthScore returns
calculateOnboardingHealthScore(db, companyId, onboardingStartDate) ==
  LET startDate == onboardingStartOf(db, companyId, onboardingStartDate)
      daysSinceOnboarding == db.now - startDate
      events == getUsageEvents(db, companyId, Max(daysSinceOnboarding, 30))
      milestones == evaluateMilestones(events, startDate)
      milestoneCoverageScore == calculateMilestoneCoverage(milestones, daysSinceOnboarding)
      timeToFirstValue == calculateTimeToFirstValue(milestones, startDate)
      ahaMomentsReached == Len(SelectSeq(milestones, LAMBDA m : m.isAhaMoment /\ m.completed))
      ahaMomentsTotal == Len(SelectSeq(milestones, LAMBDA m : m.isAhaMoment))
      status == determineOnboardingStatus(db, milestoneCoverageScore, daysSinceOnboarding, milestones)
  IN  [companyId |-> companyId,
       score |-> calculateOverallOnboardingScore(milestoneCoverageScore, timeToFirstValue,
                   ahaMomentsReached, ahaMomentsTotal, status, daysSinceOnboarding),
       status |-> status,
       milestoneCoverageScore |-> milestoneCoverageScore,
       timeToFirstValue |-> timeToFirstValue,
       ahaMomentsReached |-> ahaMomentsReached,
       ahaMomentsTotal |-> ahaMomentsTotal,
       onboardingForecastScore |-> calculateOnboardingForecast(milestones, daysSinceOnboarding),
       milestones |-> milestones,
       daysSinceOnboarding |-> daysSinceOnboarding,
       recommendations |-> generateOnboardingRecommendations(db, milestones, status, daysSinceOnboarding),
       calculatedAt |-> db.now]

(***************************************************************************)
(* Expansion engine (expansionService)                                     *)
(***************************************************************************)
EXPANSION_CONFIG ==
  [seatUtilizationHigh |-> 80, seatUtilizationMedium |-> 60,
   featureAdoptionHigh |-> 8, featureAdoptionMedium |-> 5,
   powerUserThreshold |-> 10, usageGrowthThreshold |-> 20]

\* String.prototype.includes on the strings the model stores
includes(str, sub) ==
  <<str, sub>> \in {<<"premium_trial", "premium">>, <<"premium_trial", "trial">>,
                    <<"plan_upgrade", "upgrade">>, <<"explore_addons", "explore">>,
                    <<"api_call", "api">>, <<"api", "api">>,
                    <<"advanced_feature", "advanced">>, <<"premium_reports", "premium">>}

\* calculateSeatUtilization
calculateSeatUtilization(db, companyId, events) ==
  \* getSeatData(companyId)?.licensed || 10
  LET licensedSeatsOf(db_, companyId_) ==
        IF db_.seatData[companyId_] = NULL \/ db_.seatData[companyId_] = 0 THEN 10 ELSE db_.seatData[companyId_]
  IN
    LET licensedSeats == licensedSeatsOf(db, companyId)
        recentEvents == SelectSeq(events, LAMBDA e : e.timestamp >= db.now - 30)
        uniqueUsers == {e.userId : e \in Range(recentEvents)} \ {""}
        currentSeats == IF Cardinality(uniqueUsers) = 0 THEN 1 ELSE Cardinality(uniqueUsers)
        activity(u) == Len(SelectSeq(recentEvents, LAMBDA e : e.userId = u))
        powerUserThreshold == EXPANSION_CONFIG.powerUserThreshold * 4
    IN  [currentSeats |-> currentSeats,
         licensedSeats |-> licensedSeats,
         utilizationPercent |-> Min(100, Round(currentSeats * 100, licensedSeats)),
         powerUsers |-> Cardinality({u \in uniqueUsers : activity(u) >= powerUserThreshold})]

\* calculateSeatGrowthScore: the sum has the denominator 10 * currentSeats
calculateSeatGrowthScore(su) ==
  LET den == 10 * su.currentSeats
      utilPart ==
        IF su.utilizationPercent >= EXPANSION_CONFIG.seatUtilizationHigh THEN 40 * den
        ELSE IF su.utilizationPercent >= EXPANSION_CONFIG.seatUtilizationMedium THEN 25 * den
        ELSE Max(0, su.utilizationPercent) * su.currentSeats
      powerPart == IF su.currentSeats > 0 THEN su.powerUsers * 30 * 10 ELSE 0
      nearPart == IF 10 * su.currentSeats >= 9 * su.licensedSeats THEN 20 * den ELSE 0
      growPart == IF su.currentSeats > su.licensedSeats THEN 10 * den ELSE 0
  IN  Min(100, Round(utilPart + powerPart + nearPart + growPart, den))

\* calculateAddOnScore
calculateAddOnScore(features, events) ==
  LET featureCount == Len(features)
      depth == IF featureCount >= EXPANSION_CONFIG.featureAdoptionHigh THEN 35
               ELSE IF featureCount >= EXPANSION_CONFIG.featureAdoptionMedium THEN 20 ELSE 0
      addOnEvents == SelectSeq(events, LAMBDA e :
                        \/ includes(e.eventType, "premium")
                        \/ includes(e.eventType, "upgrade")
                        \/ includes(e.eventType, "explore")
                        \/ includes(e.eventType, "trial"))
      heavyFeatures == SelectSeq(features, LAMBDA f : f.usageCount > 20)
  IN  Min(100, depth + Min(30, Len(addOnEvents) * 5) + Min(35, Len(heavyFeatures) * 7))

\* calculateFeatureUpgradeScore
calculateFeatureUpgradeScore(features, mlTrend) ==
  LET growth == IF mlTrend.trendDirection.n > mlTrend.trendDirection.d THEN 30
                ELSE IF mlTrend.trendDirection.n > 0 THEN 15 ELSE 0
      class == IF mlTrend.classification = "accelerating_usage" THEN 25
               ELSE IF mlTrend.classification = "healthy_growth" THEN 20
               ELSE IF mlTrend.classification = "stabilizing" THEN 10 ELSE 0
      breadth == IF Len(features) >= 8 THEN 20 ELSE IF Len(features) >= 5 THEN 10 ELSE 0
      intensiveFeatures == SelectSeq(features, LAMBDA f : f.usageCount > 30)
  IN  Min(100, growth + class + breadth + Min(25, Len(intensiveFeatures) * 5))

\* calculateUsageBasedScore
calculateUsageBasedScore(events, mlTrend) ==
  LET volume == IF Len(events) >= 200 THEN 30
                ELSE IF Len(events) >= 100 THEN 20
                ELSE IF Len(events) >= 50 THEN 10 ELSE 0
      recentDeltas == lastFour(mlTrend.weeklyDeltas)
      \* the sum of the deltas; avgGrowth is the sum over the length
      total == fracSum(recentDeltas)
      len == Len(recentDeltas)
      growth == IF len = 0 THEN 0
                ELSE IF fracAbove(total, EXPANSION_CONFIG.usageGrowthThreshold * len) THEN 40
                ELSE IF fracAbove(total, 10 * len) THEN 25
                ELSE IF fracAbove(total, 0) THEN 10 ELSE 0
      \* recentGrowth > olderGrowth + 5, both sums over 2
      recentTwo == fracSum(SubSeq(recentDeltas, len - 1, len))
      olderTwo == fracSum(SubSeq(recentDeltas, 1, 2))
      acceleration ==
        IF len >= 2 /\ recentTwo.n * olderTwo.d > (olderTwo.n + 10 * olderTwo.d) * recentTwo.d
        THEN 20 ELSE 0
      positiveDeltas == Len(SelectSeq(recentDeltas, LAMBDA f : f.n > 0))
  IN  Min(100, volume + growth + acceleration + positiveDeltas * 5)

\* calculateConfidence: base and result in hundredths
calculateConfidence(baseConfidence, score) == Round(10 * baseConfidence + 3 * score, 10)

\* calculateExpansionVectors: confidence in hundredths
calculateExpansionVectors(events, features, mlTrend, su) ==
  LET getUsageBasedReasoning(events_, mlTrend_) ==
        IF Len(events_) >= 200 /\ mlTrend_.trendDirection.n > 0
        THEN [text |-> "High volume with positive trend - strong usage-based expansion candidate",
              args |-> << >>]
        ELSE IF Len(events_) >= 100
        THEN [text |-> "Significant usage volume (N events) with growth potential", args |-> <<Len(events_)>>]
        ELSE [text |-> "Current usage at N events - monitor for growth", args |-> <<Len(events_)>>]
  IN
    LET getFeatureUpgradeReasoning(features_, mlTrend_) ==
          LET heavyFeatures == SelectSeq(features_, LAMBDA f : f.usageCount > 30) IN
          IF mlTrend_.classification = "accelerating_usage"
          THEN [text |-> "Rapidly growing usage suggests readiness for advanced features", args |-> << >>]
          ELSE IF mlTrend_.classification = "healthy_growth"
          THEN [text |-> "Consistent growth pattern indicates upgrade potential", args |-> << >>]
          ELSE IF Len(heavyFeatures) > 0
          THEN [text |-> "Intensive use of N features suggests tier upgrade", args |-> <<Len(heavyFeatures)>>]
          ELSE [text |-> "Monitor usage growth for upgrade timing", args |-> << >>]
    IN
      LET getAddOnReasoning(features_) ==
            IF Len(features_) >= 8
            THEN [text |-> "Heavy feature adoption (N features) indicates add-on readiness",
                  args |-> <<Len(features_)>>]
            ELSE IF Len(features_) >= 5
            THEN [text |-> "Good feature breadth (N features) - potential for add-ons",
                  args |-> <<Len(features_)>>]
            ELSE [text |-> "Using N features - build adoption before add-on discussion",
                  args |-> <<Len(features_)>>]
      IN
        LET getSeatGrowthReasoning(su_) ==
              IF su_.utilizationPercent >= 90
              THEN [text |-> "Near capacity (N% utilization) with N power users",
                    args |-> <<su_.utilizationPercent, su_.powerUsers>>]
              ELSE IF su_.utilizationPercent >= 70
              THEN [text |-> "Strong utilization (N%) suggests team growth",
                    args |-> <<su_.utilizationPercent>>]
              ELSE [text |-> "Current utilization at N% (N/N seats)",
                    args |-> <<su_.utilizationPercent, su_.currentSeats, su_.licensedSeats>>]
        IN
          LET seatGrowthScore == calculateSeatGrowthScore(su)
              addOnScore == calculateAddOnScore(features, events)
              featureUpgradeScore == calculateFeatureUpgradeScore(features, mlTrend)
              usageBasedScore == calculateUsageBasedScore(events, mlTrend)
              vectors ==
                <<[type |-> "seat_growth", score |-> seatGrowthScore,
                   confidence |-> calculateConfidence(IF su.utilizationPercent > 70 THEN 80 ELSE 50,
                                                      seatGrowthScore),
                   reasoning |-> getSeatGrowthReasoning(su)],
                  [type |-> "add_ons", score |-> addOnScore,
                   confidence |-> calculateConfidence(IF Len(features) > 5 THEN 70 ELSE 40, addOnScore),
                   reasoning |-> getAddOnReasoning(features)],
                  [type |-> "feature_upgrades", score |-> featureUpgradeScore,
                   confidence |-> calculateConfidence(IF mlTrend.trendDirection.n > 0 THEN 75 ELSE 45,
                                                      featureUpgradeScore),
                   reasoning |-> getFeatureUpgradeReasoning(features, mlTrend)],
                  [type |-> "usage_based", score |-> usageBasedScore,
                   confidence |-> calculateConfidence(IF Len(events) > 50 THEN 80 ELSE 50, usageBasedScore),
                   reasoning |-> getUsageBasedReasoning(events, mlTrend)]>>
          IN  SortByKey(vectors, [i \in 1..4 |-> 0 - vectors[i].score])

\* detectExpansionSignals
detectExpansionSignals(db, events, features, mlTrend, su) ==
  LET strengthOrder(strength) ==
        CASE strength = "strong" -> 0 [] strength = "moderate" -> 1 [] OTHER -> 2
  IN
    LET sig(type, strength, text, n) ==
          [type |-> type, strength |-> strength,
           description |-> [text |-> text, n |-> n], detectedAt |-> db.now]
        deltas == mlTrend.weeklyDeltas
        recentDelta == IF Len(deltas) = 0 THEN [n |-> 0, d |-> 1] ELSE deltas[Len(deltas)]
        premiumEvents == SelectSeq(events, LAMBDA e :
                            \/ includes(e.eventType, "premium")
                            \/ includes(e.eventType, "upgrade")
                            \/ includes(e.featureName, "premium")
                            \/ includes(e.featureName, "advanced"))
        apiEvents == SelectSeq(events, LAMBDA e :
                        includes(e.eventType, "api") \/ includes(e.featureName, "api"))
        signals ==
          (IF su.utilizationPercent >= 85
           THEN <<sig("high_seat_utilization",
                      IF su.utilizationPercent >= 95 THEN "strong" ELSE "moderate",
                      "Seat utilization at N% - team growth likely", su.utilizationPercent)>>
           ELSE << >>)
          \o (IF fracAbove(recentDelta, 30)
              THEN <<sig("usage_spike",
                         IF fracAbove(recentDelta, 50) THEN "strong" ELSE "moderate",
                         "N% usage increase this week", Round(recentDelta.n, recentDelta.d))>>
              ELSE << >>)
          \o (IF Len(features) >= 8
              THEN <<sig("feature_adoption_milestone",
                         IF Len(features) >= 12 THEN "strong" ELSE "moderate",
                         "Using N features - power user territory", Len(features))>>
              ELSE << >>)
          \o (IF mlTrend.classification = "accelerating_usage"
              THEN <<sig("accelerating_usage", "strong", "Usage growth is accelerating", 0)>>
              ELSE IF mlTrend.classification = "healthy_growth"
              THEN <<sig("healthy_growth", "moderate", "Consistent healthy usage growth", 0)>>
              ELSE << >>)
          \o (IF su.powerUsers >= 3
              THEN <<sig("multiple_power_users",
                         IF su.powerUsers >= 5 THEN "strong" ELSE "moderate",
                         "N power users identified", su.powerUsers)>>
              ELSE << >>)
          \o (IF Len(premiumEvents) > 0
              THEN <<sig("premium_feature_interest",
                         IF Len(premiumEvents) >= 5 THEN "strong"
                         ELSE IF Len(premiumEvents) >= 2 THEN "moderate" ELSE "weak",
                         "N interactions with premium features", Len(premiumEvents))>>
              ELSE << >>)
          \o (IF Len(apiEvents) > 10
              THEN <<sig("api_heavy_usage",
                         IF Len(apiEvents) >= 50 THEN "strong" ELSE "moderate",
                         "Heavy API usage suggests integration/automation needs", 0)>>
              ELSE << >>)
    IN  SortByKey(signals, [i \in 1..Len(signals) |-> strengthOrder(signals[i].strength)])

strongCount(signals) == Len(SelectSeq(signals, LAMBDA x : x.strength = "strong"))

\* calculateLikelihoodScore: the weights 1, 1/2, 1/3 over their sum are
\* 6/11, 3/11, 2/11; with the confidence in hundredths baseScore has the
\* denominator 1100 (the vectors are always four, so the top three exist)
calculateLikelihoodScore(vectors, signals, mlTrend) ==
  LET moderateCount(signals_) == Len(SelectSeq(signals_, LAMBDA x : x.strength = "moderate"))
  IN
    LET baseNum == 6 * vectors[1].score * vectors[1].confidence
                   + 3 * vectors[2].score * vectors[2].confidence
                   + 2 * vectors[3].score * vectors[3].confidence
        signalBoost == Min(20, strongCount(signals) * 8 + moderateCount(signals) * 3)
        trendAdjustment ==
          IF mlTrend.classification = "accelerating_usage" THEN 10
          ELSE IF mlTrend.classification = "healthy_growth" THEN 5
          ELSE IF mlTrend.classification \in {"soft_decline", "sharp_decline"} THEN 0 - 15
          ELSE 0
    IN  Max(0, Min(100, Round(baseNum + (signalBoost + trendAdjustment) * 1100, 1100)))

\* determineExpansionHorizon
determineExpansionHorizon(likelihoodScore, signals, su) ==
  IF likelihoodScore >= 75 /\ strongCount(signals) >= 2 THEN "ready_now"
  ELSE IF su.utilizationPercent >= 95 /\ likelihoodScore >= 60 THEN "ready_now"
  ELSE IF likelihoodScore >= 55 /\ strongCount(signals) >= 1 THEN "likely_soon"
  ELSE IF su.utilizationPercent >= 80 /\ likelihoodScore >= 45 THEN "likely_soon"
  ELSE IF likelihoodScore >= 35 THEN "potential"
  ELSE "not_likely"

\* generateExpansionRecommendations
generateExpansionRecommendations(vectors, signals, su, horizon) ==
  LET horizonPart ==
        IF horizon = "ready_now"
        THEN <<"Schedule expansion conversation with decision maker",
               "Prepare ROI analysis based on current usage patterns">>
        ELSE IF horizon = "likely_soon"
        THEN <<"Begin nurturing conversations about growth plans",
               "Share customer success stories about expansion benefits">>
        ELSE << >>
      topVector == vectors[1]
      vectorPart ==
        IF topVector.score < 50 THEN << >>
        ELSE CASE topVector.type = "seat_growth" ->
                    <<"Discuss team growth and additional user licensing">>
                    \o (IF su.utilizationPercent >= 90
                        THEN <<"Offer volume discount for seat bundle">> ELSE << >>)
               [] topVector.type = "add_ons" ->
                    <<"Demo relevant add-on features based on usage patterns",
                      "Provide trial access to premium add-ons">>
               [] topVector.type = "feature_upgrades" ->
                    <<"Highlight advanced features that match their use case",
                      "Offer upgrade to next tier with feature preview">>
               [] topVector.type = "usage_based" ->
                    <<"Review usage patterns and recommend appropriate tier",
                      "Discuss predictable billing options for heavy usage">>
      strongSignals == SelectSeq(signals, LAMBDA x : x.strength = "strong")
      signalPart ==
        (IF \E i \in 1..Len(strongSignals) : strongSignals[i].type = "multiple_power_users"
         THEN <<"Identify power users for champion program">> ELSE << >>)
        \o (IF \E i \in 1..Len(strongSignals) : strongSignals[i].type = "api_heavy_usage"
            THEN <<"Discuss enterprise API tier or dedicated support">> ELSE << >>)
  IN  firstFive(horizonPart \o vectorPart \o signalPart)

\* the prediction from the values calculateExpansionPrediction computes first
expansionPredictionOf(db, companyId, events, features, mlTrend, seatUtilization) ==
  LET built ==
        {[vectors |-> v, expansionSignals |-> x] :
           v \in {calculateExpansionVectors(events, features, mlTrend, seatUtilization)},
           x \in {detectExpansionSignals(db, events, features, mlTrend, seatUtilization)}}
      result(vectors, expansionSignals) ==
        LET likelihoodScore == calculateLikelihoodScore(vectors, expansionSignals, mlTrend)
            horizon == determineExpansionHorizon(likelihoodScore, expansionSignals,
                                                 seatUtilization)
        IN  [companyId |-> companyId,
             likelihoodScore |-> likelihoodScore,
             horizon |-> horizon,
             vectors |-> vectors,
             seatUtilization |-> seatUtilization,
             expansionSignals |-> expansionSignals,
             recommendations |-> generateExpansionRecommendations(vectors, expansionSignals,
                                                                  seatUtilization, horizon),
             calculatedAt |-> db.now]
  IN  CHOOSE r \in {result(b.vectors, b.expansionSignals) : b \in built} : TRUE

\* calculateExpansionPrediction: each of the consts is computed once
calculateExpansionPrediction(db, companyId) ==
  CHOOSE r \in
    {expansionPredictionOf(db, companyId, events, features, mlTrend,
                           calculateSeatUtilization(db, companyId, events)) :
       events \in {getUsageEvents(db, companyId, 90)},
       features \in {calculateFeatureAdoption(db, companyId)},
       mlTrend \in {calculateMLUsageTrend(db, companyId)}} : TRUE

(***************************************************************************)
(* HTTP handlers of routes/usageEvents (requests pass authenticateApiKey)  *)
(***************************************************************************)
\* the handler without its own identifier check: the throw of the store is
\* caught and answered 500
postUsageEvent_noCheck(store, id, t, body) ==
  IF body.eventType = ""
  THEN [store |-> store, nextId |-> id, status |-> 400, events |-> << >>]
  ELSE LET r == storeUsageEvent(store, id, t, body) IN
       [store |-> r.store, nextId |-> r.nextId,
        status |-> IF r.ok THEN 201 ELSE 500, events |-> r.events]

\* POST /api/usage-events: validateRequest, the handler's own check, the store
postUsageEvent(store, id, t, body) ==
  IF body.eventType = ""
  THEN [store |-> store, nextId |-> id, status |-> 400, events |-> << >>]
  ELSE IF body.companyId = "" /\ body.externalCompanyId = ""
  THEN [store |-> store, nextId |-> id, status |-> 400, events |-> << >>]
  ELSE LET r == storeUsageEvent(store, id, t, body) IN
       [store |-> r.store, nextId |-> r.nextId,
        status |-> IF r.ok THEN 201 ELSE 500, events |-> r.events]

\* POST /api/usage-events/batch: the array is validated (1 to 100 items, each
\* with an eventType), then every event is checked before any is stored
postUsageEventsBatch(store, id, t, events) ==
  IF Len(events) < 1 \/ Len(events) > 100
     \/ \E i \in 1..Len(events) : events[i].eventType = ""
  THEN [store |-> store, nextId |-> id, status |-> 400, events |-> << >>]
  ELSE IF \E i \in 1..Len(events) :
            events[i].companyId = "" /\ events[i].externalCompanyId = ""
  THEN [store |-> store, nextId |-> id, status |-> 400, events |-> << >>]
  ELSE LET r == batchStoreUsageEvents(store, id, t, events) IN
       [store |-> r.store, nextId |-> r.nextId,
        status |-> IF r.ok THEN 201 ELSE 500, events |-> r.events]

(***************************************************************************)
(* Inputs                                                                  *)
(***************************************************************************)
eventInput(companyId, externalCompanyId, eventType, featureName, timestamp, userId) ==
  [companyId |-> companyId, externalCompanyId |-> externalCompanyId,
   eventType |-> eventType, featureName |-> featureName,
   timestamp |-> timestamp, userId |-> userId]

\* inputs of the store: by companyId, by externalCompanyId, by both, by neither
StoreInputs ==
  {eventInput("a", "", "login", "", NULL, "u1"),
   eventInput("", "b", "feature_use", "reports", NowInit - 30, ""),
   eventInput("a", "b", "login", "reports", NowInit - 30, "u2"),
   eventInput("", "", "login", "", NULL, "")}

\* all lists of 1..n elements of S
RECURSIVE ListsUpTo(_, _)
ListsUpTo(S, n) ==
  IF n = 0 THEN {}
  ELSE {<<x>> : x \in S} \cup ListsUpTo(S, n - 1)
       \cup {Append(l, x) : l \in ListsUpTo(S, n - 1), x \in S}

BatchInputs == ListsUpTo(StoreInputs, MaxBatch)

\* the lookback windows asked for
LookbackDays == {1, 30}

(***************************************************************************)
(* History: the events each successful storeUsageEvent call stored, filed  *)
(* under the key the caller addressed (companyId if given, else            *)
(* externalCompanyId), since that key was last cleared                     *)
(***************************************************************************)
addressedKey(input) ==
  IF input.companyId # "" THEN input.companyId ELSE input.externalCompanyId

\* the inputs of a list up to the first one without any identifier
RECURSIVE storablePrefix(_)
storablePrefix(inputs) ==
  IF inputs = << >> \/ addressedKey(Head(inputs)) = "" THEN << >>
  ELSE <<Head(inputs)>> \o storablePrefix(Tail(inputs))

RECURSIVE logAfter(_, _, _, _)
logAfter(lg, id, t, inputs) ==
  IF inputs = << >> THEN lg
  ELSE logAfter([lg EXCEPT ![addressedKey(Head(inputs))] =
                    Append(@, makeEvent(Head(inputs), id, t))],
                id + 1, t, Tail(inputs))

(***************************************************************************)
(* State machine                                                           *)
(***************************************************************************)
call(op, arg, ok, error, status, result) ==
  [op |-> op, arg |-> arg, ok |-> ok, error |-> error, status |-> status, result |-> result]

Init ==
  /\ usageEvents = [k \in Keys |-> << >>]
  /\ seatData = [k \in Keys |-> NULL]
  /\ onboardingStartDates = [k \in Keys |-> NULL]
  /\ now = NowInit
  /\ nextId = 1
  /\ inflight = EmptyBag
  /\ sync = SyncIdle
  /\ tokenStore = << >>
  /\ refreshing = EmptyBag
  /\ last = call("init", << >>, TRUE, "", 0, << >>)
  /\ log = [k \in Keys |-> << >>]

\* a direct call of storeUsageEvent
StoreUsageEvent(input) ==
  /\ nextId <= MaxEvents
  /\ LET r == storeUsageEvent(usageEvents, nextId, now, input) IN
       /\ usageEvents' = r.store
       /\ nextId' = r.nextId
       /\ last' = call("storeUsageEvent", input, r.ok, r.error, 0, r.events)
  /\ log' = logAfter(log, nextId, now, storablePrefix(<<input>>))
  /\ UNCHANGED <<tokenStore, refreshing, sync, seatData, onboardingStartDates, now, inflight>>

\* a direct call of batchStoreUsageEvents
BatchStoreUsageEvents(inputs) ==
  /\ nextId + Len(inputs) - 1 <= MaxEvents
  /\ LET r == batchStoreUsageEvents(usageEvents, nextId, now, inputs) IN
       /\ usageEvents' = r.store
       /\ nextId' = r.nextId
       /\ last' = call("batchStoreUsageEvents", inputs, r.ok, r.error, 0, r.events)
  /\ log' = logAfter(log, nextId, now, storablePrefix(inputs))
  /\ UNCHANGED <<tokenStore, refreshing, sync, seatData, onboardingStartDates, now, inflight>>

GetUsageEvents(companyId, days) ==
  /\ last' = call("getUsageEvents", <<companyId, days>>, TRUE, "", 0,
                  getUsageEvents(DB, companyId, days))
  /\ UNCHANGED <<tokenStore, refreshing, sync, usageEvents, seatData, onboardingStartDates, now, nextId, inflight, log>>

ClearUsageEvents(companyId) ==
  /\ usageEvents' = clearUsageEvents(usageEvents, companyId)
  /\ log' = [log EXCEPT ![companyId] = << >>]
  /\ last' = call("clearUsageEvents", companyId, TRUE, "", 0, << >>)
  /\ UNCHANGED <<tokenStore, refreshing, sync, seatData, onboardingStartDates, now, nextId, inflight>>

\* a day passes
Tick ==
  /\ now < NowInit + MaxTicks
  /\ now' = now + 1
  /\ last' = call("tick", << >>, TRUE, "", 0, << >>)
  /\ UNCHANGED <<tokenStore, refreshing, sync, usageEvents, seatData, onboardingStartDates, nextId, inflight, log>>

Next ==
  \/ \E input \in StoreInputs : StoreUsageEvent(input)
  \/ \E inputs \in BatchInputs : BatchStoreUsageEvents(inputs)
  \/ \E k \in Keys, d \in LookbackDays : GetUsageEvents(k, d)
  \/ \E k \in Keys : ClearUsageEvents(k)
  \/ Tick

Spec == Init /\ [][Next]_vars

(***************************************************************************)
(* The store behind the HTTP API: requests are received in any order and   *)
(* number, and each handler runs to completion once it is scheduled (the   *)
(* handlers have no await between reading and writing the Map)             *)
(***************************************************************************)

\* a request: its route and the events of its body (one for the single route)
Requests ==
  \* bodies of POST /api/usage-events/batch
  LET ApiBatchBodies ==
        {<< >>,
         <<eventInput("a", "", "login", "", NULL, "u1"),
           eventInput("", "b", "feature_use", "reports", NULL, "")>>,
         <<eventInput("a", "", "login", "", NULL, "u1"),
           eventInput("", "", "login", "", NULL, "")>>}
  IN
    \* bodies of POST /api/usage-events
    LET ApiBodies ==
          {eventInput("a", "", "login", "", NULL, "u1"),
           eventInput("", "a", "feature_use", "reports", NULL, ""),
           eventInput("", "", "login", "", NULL, ""),
           eventInput("a", "", "", "", NULL, "")}
    IN
      {[route |-> "POST /api/usage-events", body |-> <<b>>] : b \in ApiBodies}
      \cup {[route |-> "POST /api/usage-events/batch", body |-> b] : b \in ApiBatchBodies}

\* number of events a request asks to store
eventsAsked(req) == Len(req.body)

RECURSIVE eventsAskedIn(_)
eventsAskedIn(bag) ==
  IF BagToSet(bag) = {} THEN 0
  ELSE LET req == CHOOSE r \in BagToSet(bag) : TRUE IN
       eventsAsked(req) + eventsAskedIn(bag (-) SetToBag({req}))

\* a request arrives
Receive(req) ==
  /\ BagCardinality(inflight) < MaxInflight
  /\ nextId + eventsAskedIn(inflight) + eventsAsked(req) - 1 <= MaxEvents
  /\ inflight' = inflight (+) SetToBag({req})
  /\ last' = call("receive", req, TRUE, "", 0, << >>)
  /\ UNCHANGED <<tokenStore, refreshing, sync, usageEvents, seatData, onboardingStartDates, now, nextId, log>>

\* the handler of a received request runs
Handle(req) ==
  /\ BagIn(req, inflight)
  /\ inflight' = inflight (-) SetToBag({req})
  /\ LET r == IF req.route = "POST /api/usage-events"
              THEN postUsageEvent(usageEvents, nextId, now, req.body[1])
              ELSE postUsageEventsBatch(usageEvents, nextId, now, req.body) IN
       /\ usageEvents' = r.store
       /\ nextId' = r.nextId
       /\ last' = call(req.route, req.body, r.status = 201, "", r.status, r.events)
       \* the stores the response reports
       /\ log' = IF r.status = 201 THEN logAfter(log, nextId, now, req.body) ELSE log
  /\ UNCHANGED <<tokenStore, refreshing, sync, seatData, onboardingStartDates, now>>

NextApi ==
  \/ \E req \in Requests : Receive(req)
  \/ \E req \in Requests : Handle(req)
  \/ \E input \in StoreInputs : StoreUsageEvent(input)
  \/ \E k \in Keys : ClearUsageEvents(k)

SpecApi == Init /\ [][NextApi]_vars

(***************************************************************************)
(* The four engines over the store, with the clock held fixed              *)
(***************************************************************************)
\* events the engines tell apart: a login of the external company "b" now,
\* and a feature use five days ago that names both companies
EngineInputs ==
  {eventInput("", "b", "login", "", NULL, "u1"),
   eventInput("a", "b", "feature_use", "reports", NowInit - 5, "u2")}

\* start dates handed to setOnboardingStartDate and to the onboarding engine
StartDates == {NowInit - 14}

\* seatData.set(companyId, { licensed: licensedSeats, metadata })
setSeatData(seats, companyId, licensedSeats) ==
  [seats EXCEPT ![companyId] = licensedSeats]

\* onboardingStartDates.set(companyId, startDate)
setOnboardingStartDate(dates, companyId, startDate) ==
  [dates EXCEPT ![companyId] = startDate]

SetSeatData(companyId, licensedSeats) ==
  /\ seatData' = setSeatData(seatData, companyId, licensedSeats)
  /\ last' = call("setSeatData", <<companyId, licensedSeats>>, TRUE, "", 0, << >>)
  /\ UNCHANGED <<tokenStore, refreshing, sync, usageEvents, onboardingStartDates, now, nextId, inflight, log>>

SetOnboardingStartDate(companyId, startDate) ==
  /\ onboardingStartDates' = setOnboardingStartDate(onboardingStartDates, companyId, startDate)
  /\ last' = call("setOnboardingStartDate", <<companyId, startDate>>, TRUE, "", 0, << >>)
  /\ UNCHANGED <<tokenStore, refreshing, sync, usageEvents, seatData, now, nextId, inflight, log>>

CalculateRenewalHealthScore(companyId) ==
  /\ last' = call("calculateRenewalHealthScore", <<companyId, NULL>>, TRUE, "", 0,
                  calculateRenewalHealthScore(DB, companyId))
  /\ UNCHANGED <<tokenStore, refreshing, sync, usageEvents, seatData, onboardingStartDates, now, nextId, inflight, log>>

CalculateMLUsageTrend(companyId) ==
  /\ last' = call("calculateMLUsageTrend", <<companyId, NULL>>, TRUE, "", 0,
                  calculateMLUsageTrend(DB, companyId))
  /\ UNCHANGED <<tokenStore, refreshing, sync, usageEvents, seatData, onboardingStartDates, now, nextId, inflight, log>>

\* the sort of allEvents done on the stored list itself, as if getUsageEvents
\* handed out the array of the store instead of a filtered copy
CalculateOnboardingHealthScore_sortsStore(companyId, onboardingStartDate) ==
  /\ last' = call("calculateOnboardingHealthScore", <<companyId, onboardingStartDate>>,
                  TRUE, "", 0, calculateOnboardingHealthScore(DB, companyId, onboardingStartDate))
  /\ onboardingStartDates' = onboardingDatesAfter(DB, companyId, onboardingStartDate)
  /\ usageEvents' =
       IF infersStartDate(DB, companyId, onboardingStartDate)
       THEN [usageEvents EXCEPT ![companyId] =
               SortByKey(@, [i \in 1..Len(@) |-> @[i].timestamp])]
       ELSE usageEvents
  /\ UNCHANGED <<tokenStore, refreshing, sync, seatData, now, nextId, inflight, log>>

\* the engine may persist the start date it infers
CalculateOnboardingHealthScore(companyId, onboardingStartDate) ==
  /\ last' = call("calculateOnboardingHealthScore", <<companyId, onboardingStartDate>>,
                  TRUE, "", 0, calculateOnboardingHealthScore(DB, companyId, onboardingStartDate))
  /\ onboardingStartDates' = onboardingDatesAfter(DB, companyId, onboardingStartDate)
  /\ UNCHANGED <<tokenStore, refreshing, sync, usageEvents, seatData, now, nextId, inflight, log>>

CalculateExpansionPrediction(companyId) ==
  /\ last' = call("calculateExpansionPrediction", <<companyId, NULL>>, TRUE, "", 0,
                  calculateExpansionPrediction(DB, companyId))
  /\ UNCHANGED <<tokenStore, refreshing, sync, usageEvents, seatData, onboardingStartDates, now, nextId, inflight, log>>

\* licensed seat counts handed to setSeatData
NextEngines ==
  \/ \E input \in EngineInputs : nextId <= MaxEngineEvents /\ StoreUsageEvent(input)
  \/ \E k \in Keys : ClearUsageEvents(k)
  \/ \E k \in Keys, n \in {1} : SetSeatData(k, n)
  \/ \E k \in Keys, d \in StartDates : SetOnboardingStartDate(k, d)
  \/ \E k \in Keys : CalculateRenewalHealthScore(k)
  \/ \E k \in Keys : CalculateMLUsageTrend(k)
  \/ \E k \in Keys, d \in StartDates \cup {NULL} : CalculateOnboardingHealthScore(k, d)
  \/ \E k \in Keys : CalculateExpansionPrediction(k)

SpecEngines == Init /\ [][NextEngines]_vars

(***************************************************************************)
(* The renewal engine over usage histories: company "a" has stored events  *)
(* in two consecutive weeks, over some features, the last some days ago    *)
(***************************************************************************)
FeatureNames == <<"reports", "dashboard", "export", "api">>

\* the events left by storeUsageEvent calls for "a": `earlier` events a week
\* before the last day, then `later` events on the last day
historyEvents(earlier, later, features, age) ==
  [i \in 1..(earlier + later) |->
     makeEvent(eventInput("a", "", "feature_use",
                          IF features = 0 THEN ""
                          ELSE FeatureNames[((i - 1) % features) + 1],
                          IF i <= earlier THEN NowInit - age - 7 ELSE NowInit - age,
                          "u1"),
               i, NowInit)]

\* numbers of distinct features of a history (0: no event names a feature)
\* age in days of the last event of a history
InitScore ==
  \E earlier \in 0..MaxWeekCount, later \in 0..MaxWeekCount,
     features \in (0..Len(FeatureNames)), age \in {0, 2, 9} :
    /\ usageEvents = [k \in Keys |->
                        IF k = "a" THEN historyEvents(earlier, later, features, age)
                        ELSE << >>]
    /\ log = usageEvents
    /\ nextId = earlier + later + 1
    /\ seatData = [k \in Keys |-> NULL]
    /\ onboardingStartDates = [k \in Keys |-> NULL]
    /\ now = NowInit
    /\ inflight = EmptyBag
    /\ sync = SyncIdle
    /\ tokenStore = << >>
    /\ refreshing = EmptyBag
    /\ last = call("init", << >>, TRUE, "", 0, << >>)

NextScore == \E k \in Keys : CalculateRenewalHealthScore(k)

SpecScore == InitScore /\ [][NextScore]_vars

(***************************************************************************)
(* The four engines over the same usage histories                          *)
(***************************************************************************)
NextProfiles ==
  \/ \E k \in Keys : CalculateRenewalHealthScore(k)
  \/ \E k \in Keys : CalculateMLUsageTrend(k)
  \/ \E k \in Keys : CalculateOnboardingHealthScore(k, NULL)
  \/ \E k \in Keys : CalculateExpansionPrediction(k)

SpecProfiles == InitScore /\ [][NextProfiles]_vars

(***************************************************************************)
(* The expansion engine over the users of company "a"                      *)
(***************************************************************************)
UserNames == <<"u1", "u2", "u3", "u4", "u5", "u6", "u7", "u8", "u9", "u10", "u11", "u12">>

\* the events left by storeUsageEvent calls for "a": one login yesterday by
\* each of `users` users, a second one by the first of them, then (stale) a
\* login 40 days ago by one more user and (anon) a login without userId
seatEvents(users, stale, anon) ==
  LET recent == [i \in 1..users |->
                   eventInput("a", "", "login", "", NowInit - 1, UserNames[i])]
      again == IF users > 0
               THEN <<eventInput("a", "", "login", "", NowInit, UserNames[1])>> ELSE << >>
      old == IF stale
             THEN <<eventInput("a", "", "login", "", NowInit - 40, UserNames[users + 1])>>
             ELSE << >>
      nameless == IF anon THEN <<eventInput("a", "", "login", "", NULL, "")>> ELSE << >>
      inputs == recent \o again \o old \o nameless
  IN  [i \in 1..Len(inputs) |-> makeEvent(inputs[i], i, NowInit)]

InitSeats ==
  \E users \in 0..MaxUsers, stale \in BOOLEAN, anon \in BOOLEAN :
    /\ usageEvents = [k \in Keys |->
                        IF k = "a" THEN seatEvents(users, stale, anon) ELSE << >>]
    /\ log = usageEvents
    /\ nextId = Len(usageEvents["a"]) + 1
    /\ seatData = [k \in Keys |-> NULL]
    /\ onboardingStartDates = [k \in Keys |-> NULL]
    /\ now = NowInit
    /\ inflight = EmptyBag
    /\ sync = SyncIdle
    /\ tokenStore = << >>
    /\ refreshing = EmptyBag
    /\ last = call("init", << >>, TRUE, "", 0, << >>)

\* licensed seat counts handed to setSeatData
NextSeats ==
  \/ \E k \in Keys, n \in {0, 1, 10} : SetSeatData(k, n)
  \/ \E k \in Keys : CalculateExpansionPrediction(k)

SpecSeats == InitSeats /\ [][NextSeats]_vars

(***************************************************************************)
(* The onboarding engine over old and new events, with the clock running   *)
(***************************************************************************)
\* a login dated more than a year back, feature uses five and two days ago
\* and a login at the time of the call, all of company "a"
OnboardingInputs ==
  {eventInput("a", "", "login", "", NowInit - 400, "u1"),
   eventInput("a", "", "feature_use", "reports", NowInit - 5, "u2"),
   eventInput("a", "", "feature_use", "dashboard", NowInit - 2, "u2"),
   eventInput("a", "", "login", "", NULL, "u1")}

NextOnboarding ==
  \/ \E input \in OnboardingInputs : nextId <= MaxEngineEvents /\ StoreUsageEvent(input)
  \/ \E k \in Keys : ClearUsageEvents(k)
  \/ \E k \in Keys, d \in StartDates : SetOnboardingStartDate(k, d)
  \/ \E k \in Keys, d \in StartDates \cup {NULL} : CalculateOnboardingHealthScore(k, d)
  \/ Tick

SpecOnboarding == Init /\ [][NextOnboarding]_vars

(***************************************************************************)
(* The trend engine over usage five weeks ago and usage now                *)
(***************************************************************************)
\* the events left by storeUsageEvent calls for "a": `older` events dated 35
\* days before the time of the call (week 6 of the 12), then `recent` events
\* at the time of the call (week 11); 8 older events are a weekly mean of 1
\* over weeks 0-7, 4 recent events a weekly mean of 1 over weeks 8-11
InitDrift ==
  \E older \in 0..(8 + MaxWeekCount), recent \in 0..MaxWeekCount :
    /\ usageEvents = [k \in Keys |->
                        IF k = "a"
                        THEN [i \in 1..(older + recent) |->
                                makeEvent(eventInput("a", "", "login", "",
                                                     IF i <= older THEN NowInit - 35 ELSE NowInit,
                                                     "u1"),
                                          i, NowInit)]
                        ELSE << >>]
    /\ log = usageEvents
    /\ nextId = older + recent + 1
    /\ seatData = [k \in Keys |-> NULL]
    /\ onboardingStartDates = [k \in Keys |-> NULL]
    /\ now = NowInit
    /\ inflight = EmptyBag
    /\ sync = SyncIdle
    /\ tokenStore = << >>
    /\ refreshing = EmptyBag
    /\ last = call("init", << >>, TRUE, "", 0, << >>)

NextDrift ==
  \/ \E k \in Keys : CalculateMLUsageTrend(k)
  \/ \E k \in Keys : ClearUsageEvents(k)

SpecDrift == InitDrift /\ [][NextDrift]_vars

(***************************************************************************)
(* Every function that reads or writes the event store                     *)
(***************************************************************************)
CalculateUsageTrends(companyId) ==
  /\ last' = call("calculateUsageTrends", <<companyId, NULL>>, TRUE, "", 0,
                  calculateUsageTrends(DB, companyId))
  /\ UNCHANGED <<tokenStore, refreshing, sync, usageEvents, seatData, onboardingStartDates, now, nextId, inflight, log>>

CalculateFeatureAdoption(companyId) ==
  /\ last' = call("calculateFeatureAdoption", <<companyId, NULL>>, TRUE, "", 0,
                  calculateFeatureAdoption(DB, companyId))
  /\ UNCHANGED <<tokenStore, refreshing, sync, usageEvents, seatData, onboardingStartDates, now, nextId, inflight, log>>

NextFrame ==
  \/ \E input \in OnboardingInputs : nextId <= MaxEngineEvents /\ StoreUsageEvent(input)
  \/ \E inputs \in ListsUpTo(OnboardingInputs, MaxBatch) :
       nextId + Len(inputs) - 1 <= MaxEngineEvents /\ BatchStoreUsageEvents(inputs)
  \/ \E k \in Keys : ClearUsageEvents(k)
  \/ \E k \in Keys : CalculateRenewalHealthScore(k)
  \/ \E k \in Keys : CalculateMLUsageTrend(k)
  \/ \E k \in Keys : CalculateOnboardingHealthScore(k, NULL)
  \/ \E k \in Keys : CalculateExpansionPrediction(k)
  \/ \E k \in Keys : CalculateUsageTrends(k)
  \/ \E k \in Keys : CalculateFeatureAdoption(k)

SpecFrame == Init /\ [][NextFrame]_vars

(***************************************************************************)
(* The renewal engine over four consecutive weeks of usage                 *)
(***************************************************************************)
\* the events left by storeUsageEvent calls for "a": counts[w] events dated
\* 7 * (4 - w) days before the time of the call, w = 1..4
InitTrend ==
  \E counts \in [1..4 -> 0..MaxWeekCount] :
    LET weekOf(i) == CHOOSE w \in 1..4 :
                       /\ SumSeq(SubSeq(counts, 1, w - 1)) < i
                       /\ i <= SumSeq(SubSeq(counts, 1, w))
    IN
      /\ usageEvents = [k \in Keys |->
                          IF k = "a"
                          THEN [i \in 1..SumSeq(counts) |->
                                  makeEvent(eventInput("a", "", "login", "",
                                                       NowInit - 7 * (4 - weekOf(i)), "u1"),
                                            i, NowInit)]
                          ELSE << >>]
      /\ log = usageEvents
      /\ nextId = SumSeq(counts) + 1
      /\ seatData = [k \in Keys |-> NULL]
      /\ onboardingStartDates = [k \in Keys |-> NULL]
      /\ now = NowInit
      /\ inflight = EmptyBag
      /\ sync = SyncIdle
      /\ tokenStore = << >>
      /\ refreshing = EmptyBag
      /\ last = call("init", << >>, TRUE, "", 0, << >>)

NextTrend ==
  \/ \E k \in Keys : CalculateUsageTrends(k)
  \/ \E k \in Keys : CalculateRenewalHealthScore(k)

SpecTrend == InitTrend /\ [][NextTrend]_vars

(***************************************************************************)
(* The onboarding engine over milestone histories: a start date `age` days *)
(* back, and for each milestone of the template no event, an event `slack` *)
(* days before its expected date, or an event the day after it             *)
(***************************************************************************)
\* the events left by storeUsageEvent calls for "a", in template order; an
\* event that would lie after the time of the call is not there
milestoneHistory(age, slack, pace) ==
  LET eventTypes == <<"login", "profile_update", "feature_use", "data_import", "team_invite",
                      "integration_setup", "workflow_create", "report_generate",
                      "advanced_feature">>
      at(i) == IF pace[i] = "prompt"
               THEN NowInit - age + DEFAULT_MILESTONES[i].expectedByDay - slack
               ELSE NowInit - age + DEFAULT_MILESTONES[i].expectedByDay + 1
      stored == SelectSeq([i \in 1..Len(DEFAULT_MILESTONES) |-> i],
                          LAMBDA i : pace[i] # "none" /\ at(i) <= NowInit)
  IN  [j \in 1..Len(stored) |->
         makeEvent(eventInput("a", "", eventTypes[stored[j]], "", at(stored[j]), "u1"),
                   j, NowInit)]

InitMilestones ==
  \E age \in {20, 40}, slack \in {0, 1, 4},
     pace \in [1..Len(DEFAULT_MILESTONES) -> {"none", "prompt", "late"}] :
    /\ usageEvents = [k \in Keys |->
                        IF k = "a" THEN milestoneHistory(age, slack, pace) ELSE << >>]
    /\ log = usageEvents
    /\ nextId = Len(usageEvents["a"]) + 1
    /\ seatData = [k \in Keys |-> NULL]
    /\ onboardingStartDates = [k \in Keys |-> IF k = "a" THEN NowInit - age ELSE NULL]
    /\ now = NowInit
    /\ inflight = EmptyBag
    /\ sync = SyncIdle
    /\ tokenStore = << >>
    /\ refreshing = EmptyBag
    /\ last = call("init", << >>, TRUE, "", 0, << >>)

NextMilestones == \E k \in Keys : CalculateOnboardingHealthScore(k, NULL)

SpecMilestones == InitMilestones /\ [][NextMilestones]_vars

(***************************************************************************)
(* The batch variants of the four engines                                  *)
(***************************************************************************)
\* the ids of a list, each once, in the order of their first occurrence
RECURSIVE uniqueIds(_)
uniqueIds(ids) ==
  IF ids = << >> THEN << >>
  ELSE LET front == uniqueIds(SubSeq(ids, 1, Len(ids) - 1))
       IN  IF ids[Len(ids)] \in Range(front) THEN front ELSE Append(front, ids[Len(ids)])

\* the scores of the distinct ids only
batchCalculateScores_unique(db, companyIds) ==
  [i \in 1..Len(uniqueIds(companyIds)) |->
     calculateRenewalHealthScore(db, uniqueIds(companyIds)[i])]

\* companyIds.map(id => calculateRenewalHealthScore(id))
batchCalculateScores(db, companyIds) ==
  [i \in 1..Len(companyIds) |-> calculateRenewalHealthScore(db, companyIds[i])]

\* companyIds.map(id => calculateMLUsageTrend(id))
batchCalculateMLTrends(db, companyIds) ==
  [i \in 1..Len(companyIds) |-> calculateMLUsageTrend(db, companyIds[i])]

\* companyIds.map(id => calculateExpansionPrediction(id))
batchCalculateExpansionPredictions(db, companyIds) ==
  [i \in 1..Len(companyIds) |-> calculateExpansionPrediction(db, companyIds[i])]

\* companyIds.map(id => calculateOnboardingHealthScore(id)): each call sees
\* the start dates the calls before it persisted
RECURSIVE batchCalculateOnboardingScores(_, _)
batchCalculateOnboardingScores(db, companyIds) ==
  IF companyIds = << >> THEN [results |-> << >>, dates |-> db.onboardingStartDates]
  ELSE LET id == Head(companyIds)
           after == [db EXCEPT !.onboardingStartDates = onboardingDatesAfter(db, id, NULL)]
           rest == batchCalculateOnboardingScores(after, Tail(companyIds))
       IN  [results |-> <<calculateOnboardingHealthScore(db, id, NULL)>> \o rest.results,
            dates |-> rest.dates]

\* the lists of company ids handed to the batch functions
IdLists == ListsUpTo(Keys, MaxIds)

BatchCalculateScores(companyIds) ==
  /\ last' = call("batchCalculateScores", companyIds, TRUE, "", 0,
                  batchCalculateScores(DB, companyIds))
  /\ UNCHANGED <<tokenStore, refreshing, sync, usageEvents, seatData, onboardingStartDates, now, nextId, inflight, log>>

BatchCalculateMLTrends(companyIds) ==
  /\ last' = call("batchCalculateMLTrends", companyIds, TRUE, "", 0,
                  batchCalculateMLTrends(DB, companyIds))
  /\ UNCHANGED <<tokenStore, refreshing, sync, usageEvents, seatData, onboardingStartDates, now, nextId, inflight, log>>

BatchCalculateOnboardingScores(companyIds) ==
  /\ LET r == batchCalculateOnboardingScores(DB, companyIds) IN
       /\ last' = call("batchCalculateOnboardingScores", companyIds, TRUE, "", 0, r.results)
       /\ onboardingStartDates' = r.dates
  /\ UNCHANGED <<tokenStore, refreshing, sync, usageEvents, seatData, now, nextId, inflight, log>>

BatchCalculateExpansionPredictions(companyIds) ==
  /\ last' = call("batchCalculateExpansionPredictions", companyIds, TRUE, "", 0,
                  batchCalculateExpansionPredictions(DB, companyIds))
  /\ UNCHANGED <<tokenStore, refreshing, sync, usageEvents, seatData, onboardingStartDates, now, nextId, inflight, log>>

NextBatch ==
  \/ \E input \in EngineInputs : nextId <= MaxEngineEvents /\ StoreUsageEvent(input)
  \/ \E ids \in IdLists : BatchCalculateScores(ids)
  \/ \E ids \in IdLists : BatchCalculateMLTrends(ids)
  \/ \E ids \in IdLists : BatchCalculateOnboardingScores(ids)
  \/ \E ids \in IdLists : BatchCalculateExpansionPredictions(ids)

SpecBatch == Init /\ [][NextBatch]_vars

(***************************************************************************)
(* Batch sync to the CRM: batchUpdateCompanyHealthScores, the route        *)
(* POST /api/hubspot/sync-batch/:portalId and batchCreateTimelineEvents.   *)
(* Each makes one awaited CRM call per item, so other handlers run between *)
(* two items; sync holds the locals of the call in progress.               *)
(***************************************************************************)
SyncRoute == "POST /api/hubspot/sync-batch"

SyncOps == {"batchUpdateCompanyHealthScores", SyncRoute, "batchCreateTimelineEvents"}

\* what reaches the CRM for one item: the route computes the properties of the
\* company from the store as it is at that moment, the two functions pass on
\* what their caller gave them
syncPayload(db, op, companyId) ==
  \* the newest timestamp of the events, null when there is none
  LET getLastActivityFromEvents(events) ==
        IF Len(events) = 0 THEN NULL
        ELSE CHOOSE t \in {e.timestamp : e \in Range(events)} :
               \A e \in Range(events) : e.timestamp <= t
  IN
    IF op = SyncRoute
    THEN LET events == getUsageEvents(db, companyId, 30) IN
         [companyId |-> companyId,
          score |-> calculateRenewalHealthScore(db, companyId).score,
          usageCount |-> Len(events),
          lastActivity |-> getLastActivityFromEvents(events),
          featuresCount |-> Len(calculateFeatureAdoption(db, companyId))]
    ELSE [companyId |-> companyId]

\* the loop body had it no try/catch: the first failure leaves the loop and
\* the call
syncAfterItem_abort(s, outcome, payload) ==
  IF outcome = "ok"
  THEN [s EXCEPT !.pos = @ + 1,
                 !.attempted = Append(@, s.items[s.pos]),
                 !.outcomes = Append(@, outcome),
                 !.success = @ + 1,
                 !.updates = Append(@, payload)]
  ELSE [s EXCEPT !.pos = Len(s.items) + 1,
                 !.attempted = Append(@, s.items[s.pos]),
                 !.outcomes = Append(@, outcome),
                 !.threw = TRUE]

\* one turn of the loop: try { await ...; success++ } catch { failed++ }
syncAfterItem(s, outcome, payload) ==
  IF outcome = "ok"
  THEN [s EXCEPT !.pos = @ + 1,
                 !.attempted = Append(@, s.items[s.pos]),
                 !.outcomes = Append(@, outcome),
                 !.success = @ + 1,
                 !.updates = Append(@, payload)]
  ELSE [s EXCEPT !.pos = @ + 1,
                 !.attempted = Append(@, s.items[s.pos]),
                 !.outcomes = Append(@, outcome),
                 !.failed = @ + 1]

\* a batch sync is called; the route answers 400 unless companyIds holds
\* 1 to 100 items
StartSync(op, items) ==
  /\ sync.returned
  /\ IF op = SyncRoute /\ ~(Len(items) >= 1 /\ Len(items) <= 100)
     THEN /\ last' = call(op, items, FALSE, "Validation Error", 400, << >>)
          /\ UNCHANGED sync
     ELSE /\ sync' = [SyncIdle EXCEPT !.op = op, !.items = items, !.returned = FALSE]
          /\ UNCHANGED last
  /\ UNCHANGED <<tokenStore, refreshing, usageEvents, seatData, onboardingStartDates, now, nextId, inflight, log>>

\* the awaited CRM call of the next item settles
SyncItem(outcome) ==
  /\ ~sync.returned
  /\ sync.pos <= Len(sync.items)
  /\ sync' = syncAfterItem(sync, outcome, syncPayload(DB, sync.op, sync.items[sync.pos]))
  /\ UNCHANGED <<tokenStore, refreshing, usageEvents, seatData, onboardingStartDates, now, nextId, inflight, last, log>>

\* the loop is over and the call returns
FinishSync ==
  \* what the finished call hands back: the route answers { synced, failed },
  \* or 500 from its outer catch; the functions return { success, failed }
  LET syncReturn(s) ==
        IF s.op = SyncRoute
        THEN IF s.threw
             THEN call(s.op, s.items, FALSE, "Sync Error", 500, << >>)
             ELSE call(s.op, s.items, TRUE, "", 200, [synced |-> s.success, failed |-> s.failed])
        ELSE call(s.op, s.items, ~s.threw, "", 0, [success |-> s.success, failed |-> s.failed])
  IN
    /\ ~sync.returned
    /\ sync.pos > Len(sync.items)
    /\ sync' = [sync EXCEPT !.returned = TRUE]
    /\ last' = syncReturn(sync)
    /\ UNCHANGED <<tokenStore, refreshing, usageEvents, seatData, onboardingStartDates, now, nextId, inflight, log>>

\* how one awaited CRM call ends: it resolves, or it rejects (the CRM refuses
\* the update, or getHubSpotClient throws because the portal has no tokens)
NextSync ==
  \/ \E input \in EngineInputs : nextId <= MaxEngineEvents /\ StoreUsageEvent(input)
  \/ \E op \in SyncOps, items \in IdLists : StartSync(op, items)
  \/ \E outcome \in {"ok", "rejected"} : SyncItem(outcome)
  \/ FinishSync

SpecSync == Init /\ [][NextSync]_vars

(***************************************************************************)
(* Properties of the event store                                           *)
(***************************************************************************)
noIdentifier(input) == input.companyId = "" /\ input.externalCompanyId = ""

\* C4: storeUsageEvent with neither companyId nor externalCompanyId fails
\* with 'Either companyId or externalCompanyId is required' and leaves the
\* store unchanged for every key; the same request through the API is
\* answered 400 and stores nothing.
C4_NoIdentifierRejected ==
  [][/\ (last'.op = "storeUsageEvent" /\ noIdentifier(last'.arg))
          => /\ ~last'.ok
             /\ last'.error = "Either companyId or externalCompanyId is required"
             /\ last'.result = << >>
             /\ \A k \in Keys : usageEvents'[k] = usageEvents[k]
     /\ (last'.op = "POST /api/usage-events" /\ noIdentifier(last'.arg[1]))
          => /\ last'.status = 400
             /\ \A k \in Keys : usageEvents'[k] = usageEvents[k]]_vars

\* a call without identifiers has just been refused on a store holding events
C4_Witness ==
  /\ last.op = "storeUsageEvent"
  /\ noIdentifier(last.arg)
  /\ ~last.ok
  /\ \E k \in Keys : usageEvents[k] # << >>

\* C5: if any event of the list passed to batchStoreUsageEvents lacks both
\* identifiers, the call fails and the store holds none of the events of that
\* batch afterwards (the store is as it was before the call).
C5_BatchCommitsNothingOnError ==
  [][(last'.op = "batchStoreUsageEvents"
        /\ \E i \in 1..Len(last'.arg) : noIdentifier(last'.arg[i]))
       => /\ ~last'.ok
          /\ \A k \in Keys : usageEvents'[k] = usageEvents[k]]_vars

\* the events the history holds for key k inside the window of d days
storedSince(k, d) == SelectSeq(log[k], LAMBDA e : e.timestamp >= now - d)

\* C6: getUsageEvents(k, d) returns exactly the events stored since the last
\* clearUsageEvents(k) under key k (companyId if supplied, else
\* externalCompanyId) with timestamp >= now - d; an event stored with both
\* identifiers is found under its companyId only; a key never stored gives
\* the empty list.
C6_QueryReturnsStoredEvents ==
  /\ \A k \in Keys, d \in LookbackDays : getUsageEvents(DB, k, d) = storedSince(k, d)
  /\ last.op = "getUsageEvents" => last.result = storedSince(last.arg[1], last.arg[2])
  /\ \A k \in Keys, d \in LookbackDays :
       \A i \in 1..Len(getUsageEvents(DB, k, d)) :
         LET e == getUsageEvents(DB, k, d)[i] IN
           /\ e.timestamp >= now - d
           /\ IF e.companyId # "" THEN e.companyId = k ELSE e.externalCompanyId = k

\* a query for "a" over one day has answered with some events, left out an
\* older one, and an event of "a" also names the external company "b"
C6_Witness ==
  /\ last.op = "getUsageEvents"
  /\ last.arg = <<"a", 1>>
  /\ last.result # << >>
  /\ Len(last.result) < Len(usageEvents["a"])
  /\ \E i \in 1..Len(usageEvents["a"]) : usageEvents["a"][i].externalCompanyId = "b"
  /\ \A i \in 1..Len(usageEvents["b"]) : usageEvents["b"][i].companyId = ""

\* C7: under any interleaving of concurrent record-event requests no stored
\* event is lost or duplicated: the events held for a key are as many as the
\* successful stores for that key since its last clear.
C7_NoLostOrDuplicatedEvent ==
  \A k \in Keys :
    /\ Len(usageEvents[k]) = Len(log[k])
    /\ \A i, j \in 1..Len(usageEvents[k]) :
         i # j => usageEvents[k][i].eventId # usageEvents[k][j].eventId
    /\ \A i \in 1..Len(log[k]) : \E j \in 1..Len(usageEvents[k]) : usageEvents[k][j] = log[k][i]

\* a request storing under "a" was answered 201 while another request was in
\* flight, and "a" holds the events of more than one store
C7_Witness ==
  /\ last.status = 201
  /\ BagCardinality(inflight) > 0
  /\ Len(usageEvents["a"]) >= 2

(***************************************************************************)
(* Properties of the engines                                               *)
(***************************************************************************)
\* what the four score functions return for a key
scoresOf(db, k) ==
  <<calculateRenewalHealthScore(db, k), calculateMLUsageTrend(db, k),
    calculateOnboardingHealthScore(db, k, NULL), calculateExpansionPrediction(db, k)>>

\* the one key a call was made for
keyOfCall(c) ==
  IF c.op = "storeUsageEvent" THEN addressedKey(c.arg)
  ELSE IF c.op = "clearUsageEvents" THEN c.arg
  ELSE c.arg[1]

\* C8: no write for a key A (storing or clearing events, setSeatData,
\* setOnboardingStartDate) and no score computation for A changes what any
\* of the four score functions returns for a different key B.
\* (The score functions read the three maps and the clock only: the results
\* before and after are compared across every step that changes one of them.)
C8_CompaniesIndependent ==
  [][\A B \in Keys :
       keyOfCall(last') # B =>
         \/ UNCHANGED <<usageEvents, seatData, onboardingStartDates, now>>
         \/ scoresOf(DB', B) = scoresOf(DB, B)]_vars

\* the start date of "a" has just been inferred and persisted by a score
\* computation for "a", which holds an event naming "b"; "b" has events too

C8_Witness ==
  /\ last.op = "calculateOnboardingHealthScore"
  /\ last.arg = <<"a", NULL>>
  /\ onboardingStartDates["a"] # NULL
  /\ usageEvents["b"] # << >>
  /\ \E i \in 1..Len(usageEvents["a"]) : usageEvents["a"][i].externalCompanyId = "b"

ScoreCalls ==
  {"calculateRenewalHealthScore", "calculateMLUsageTrend",
   "calculateOnboardingHealthScore", "calculateExpansionPrediction"}

withoutCalculatedAt(result) == [result EXCEPT !.calculatedAt = 0]

\* C3: with the clock held fixed, two calls of a score function for the same
\* company with no write in between return the same result but for
\* calculatedAt; the first onboarding call may persist an inferred start date.
C3_ScoresIdempotent ==
  [][(/\ last.op \in ScoreCalls
      /\ last'.op = last.op
      /\ last'.arg = last.arg)
       => withoutCalculatedAt(last'.result) = withoutCalculatedAt(last.result)]_vars

\* the onboarding engine has inferred the start date of "a" from its first
\* event, five days ago, and persisted it
C3_Witness ==
  /\ last.op = "calculateOnboardingHealthScore"
  /\ last.arg = <<"a", NULL>>
  /\ usageEvents["a"] # << >>
  /\ onboardingStartDates["a"] = NowInit - 5
  /\ last.result.daysSinceOnboarding = 5

\* C9: for a key with zero stored events calculateRenewalHealthScore returns
\* score <= 25 and riskLevel critical.
C9_NoEventsCritical ==
  /\ \A k \in Keys :
       usageEvents[k] = << >> =>
         /\ calculateRenewalHealthScore(DB, k).score <= 25
         /\ calculateRenewalHealthScore(DB, k).riskLevel = "critical"
  /\ (last.op = "calculateRenewalHealthScore" /\ usageEvents[last.arg[1]] = << >>)
       => (last.result.score <= 25 /\ last.result.riskLevel = "critical")

\* the score of "a" has been computed after its events were cleared, while
\* "b" holds events
C9_Witness ==
  /\ last.op = "calculateRenewalHealthScore"
  /\ last.arg[1] = "a"
  /\ usageEvents["a"] = << >>
  /\ usageEvents["b"] # << >>
  /\ nextId > Len(usageEvents["b"]) + 1
  /\ last.result.riskLevel = "critical"

\* C10: for a key with zero stored events calculateMLUsageTrend returns
\* classification near_abandonment and usageSignature cluster_inactive.
C10_NoEventsNearAbandonment ==
  /\ \A k \in Keys :
       usageEvents[k] = << >> =>
         /\ calculateMLUsageTrend(DB, k).classification = "near_abandonment"
         /\ calculateMLUsageTrend(DB, k).usageSignature = "cluster_inactive"
  /\ (last.op = "calculateMLUsageTrend" /\ usageEvents[last.arg[1]] = << >>)
       => /\ last.result.classification = "near_abandonment"
          /\ last.result.usageSignature = "cluster_inactive"

\* the trend of "b" has been computed while "b" never stored an event and "a"
\* holds one
C10_Witness ==
  /\ last.op = "calculateMLUsageTrend"
  /\ last.arg[1] = "b"
  /\ usageEvents["b"] = << >>
  /\ usageEvents["a"] # << >>
  /\ last.result.classification = "near_abandonment"

(***************************************************************************)
(* Properties of the renewal score                                         *)
(***************************************************************************)
\* the weighted sum of the returned factors, in ten-thousandths
weightedSum(factors) ==
  factors[1].value * factors[1].weight + factors[2].value * factors[2].weight
  + factors[3].value * factors[3].weight + factors[4].value * factors[4].weight
  + factors[5].value * factors[5].weight

\* C1: calculateRenewalHealthScore returns exactly the five factors Usage
\* Frequency, Feature Adoption, Usage Trend, Recency, Usage Consistency with
\* the weights 0.25, 0.25, 0.20, 0.15, 0.15 (which sum to 1), and the score
\* is the weighted sum of the factor values rounded to the nearest integer.
C1_ScoreIsRoundedWeightedSum ==
  last.op = "calculateRenewalHealthScore" =>
    LET r == last.result IN
      /\ Len(r.factors) = 5
      /\ [i \in 1..5 |-> r.factors[i].name] =
           <<"Usage Frequency", "Feature Adoption", "Usage Trend", "Recency",
             "Usage Consistency">>
      /\ [i \in 1..5 |-> r.factors[i].weight] = <<25, 25, 20, 15, 15>>
      /\ r.factors[1].weight + r.factors[2].weight + r.factors[3].weight
           + r.factors[4].weight + r.factors[5].weight = 100
      \* |100 * score - sum| <= 50, and a sum ending in .5 goes up
      /\ 100 * r.score - weightedSum(r.factors) <= 50
      /\ weightedSum(r.factors) - 100 * r.score < 50

\* the score of a history whose weighted sum ends in .5 has been returned
C1_Witness ==
  /\ last.op = "calculateRenewalHealthScore"
  /\ usageEvents[last.arg[1]] # << >>
  /\ weightedSum(last.result.factors) % 100 = 50

\* the tier of an integer score
tierOf(score) ==
  IF score >= 75 THEN "low"
  ELSE IF score >= 50 THEN "medium"
  ELSE IF score >= 25 THEN "high"
  ELSE "critical"

\* C2: in every RenewalHealthScore returned, riskLevel agrees with the
\* returned integer score: low if score >= 75, medium if 50..74, high if
\* 25..49, critical if <= 24.
C2_RiskAgreesWithScore ==
  last.op = "calculateRenewalHealthScore" =>
    last.result.riskLevel = tierOf(last.result.score)

(***************************************************************************)
(* Properties of the expansion engine                                      *)
(***************************************************************************)
\* C11: for every key with zero stored events, whatever seat-licence data
\* has been set for it, calculateExpansionPrediction returns the horizon
\* not_likely.
C11_NoEventsNotLikely ==
  /\ \A k \in Keys :
       usageEvents[k] = << >> => calculateExpansionPrediction(DB, k).horizon = "not_likely"
  /\ (last.op = "calculateExpansionPrediction" /\ usageEvents[last.arg[1]] = << >>)
       => last.result.horizon = "not_likely"

(***************************************************************************)
(* Ranges of the returned scores                                           *)
(***************************************************************************)
inScoreRange(x) == x \in 0..100

\* C12: every score field returned is a number in [0, 100]: the renewal score
\* and each factor value, the trend score, the onboarding score and the
\* milestone coverage score, the likelihood score and each expansion vector
\* score; the volatility index is in [0, 1].
C12_ScoresInRange ==
  /\ last.op = "calculateRenewalHealthScore" =>
       /\ inScoreRange(last.result.score)
       /\ \A i \in 1..Len(last.result.factors) : inScoreRange(last.result.factors[i].value)
  /\ last.op = "calculateMLUsageTrend" =>
       /\ inScoreRange(last.result.trendScore)
       /\ last.result.volatilityIndexSquared.n >= 0
       /\ last.result.volatilityIndexSquared.n <= last.result.volatilityIndexSquared.d
  /\ last.op = "calculateOnboardingHealthScore" =>
       /\ inScoreRange(last.result.score)
       /\ inScoreRange(last.result.milestoneCoverageScore)
  /\ last.op = "calculateExpansionPrediction" =>
       /\ inScoreRange(last.result.likelihoodScore)
       /\ \A i \in 1..Len(last.result.vectors) : inScoreRange(last.result.vectors[i].score)

\* the trend of a history whose weekly counts deviate from their mean by more
\* than the mean has been returned with the volatility index 1
C12_Witness ==
  /\ last.op = "calculateMLUsageTrend"
  /\ usageEvents[last.arg[1]] # << >>
  /\ devN(getWeeklyEventCounts(DB, usageEvents[last.arg[1]]))
       > sumOf(getWeeklyEventCounts(DB, usageEvents[last.arg[1]]))
           * sumOf(getWeeklyEventCounts(DB, usageEvents[last.arg[1]]))
  /\ last.result.volatilityIndexSquared.n = last.result.volatilityIndexSquared.d

\* C13: the confidence of each of the four expansion vectors is greater than
\* 0 and at most 1 (kept in hundredths), for every combination of events and
\* seat data.
C13_ConfidenceInUnitInterval ==
  last.op = "calculateExpansionPrediction" =>
    /\ Len(last.result.vectors) = 4
    /\ \A i \in 1..Len(last.result.vectors) :
         /\ last.result.vectors[i].confidence > 0
         /\ last.result.vectors[i].confidence <= 100

\* the users seen in the events of key k of the last 30 days
activeUsers(k) ==
  {usageEvents[k][i].userId :
     i \in {j \in 1..Len(usageEvents[k]) : usageEvents[k][j].timestamp >= now - 30}} \ {""}

C14_ForecastIsFinite ==
  last.op = "calculateOnboardingHealthScore" =>
    /\ ~last.result.onboardingForecastScore.nan
    /\ last.result.onboardingForecastScore.value \in 0..100

\* the start date a call of the onboarding engine, just made, was about:
\* 14 days ago, explicit or stored, for a company without events
startsFortnightAgo ==
  /\ last.op = "calculateOnboardingHealthScore"
  /\ usageEvents[last.arg[1]] = << >>
  /\ \/ last.arg[2] = now - 14
     \/ last.arg[2] = NULL /\ onboardingStartDates[last.arg[1]] = now - 14

\* C15 as stated: for a company whose onboarding start date is 14 days ago
\* and that has no events, daysSinceOnboarding is in [13, 15] and the status
\* is behind or at_risk.
C15_BehindOrAtRisk ==
  startsFortnightAgo =>
    /\ last.result.daysSinceOnboarding \in 13..15
    /\ last.result.status \in {"behind", "at_risk"}

\* C15 amended: for a company whose onboarding start date is 14 days ago and
\* that has no events, daysSinceOnboarding is in [13, 15] and the status is
\* blocked (not on_track): first_feature_use, of weight 0.15, is more than
\* 7 days past its expected day 3.
C15_Blocked ==
  startsFortnightAgo =>
    /\ last.result.daysSinceOnboarding \in 13..15
    /\ last.result.status = "blocked"
    /\ last.result.status # "on_track"

\* the score of "b", which never stored an event, has been computed from the
\* start date stored for it 14 days ago
C15_Witness ==
  /\ startsFortnightAgo
  /\ last.arg = <<"b", NULL>>
  /\ onboardingStartDates["b"] = now - 14
  /\ last.result.daysSinceOnboarding = 14
  /\ completedCount(last.result.milestones) = 0

\* the start date a returned onboarding score was computed from: the first
\* milestone is expected one day after it
startDateUsed(result) == result.milestones[1].expectedDate - DEFAULT_MILESTONES[1].expectedByDay

\* the timestamp of the earliest event stored for key k (which holds events)
earliestStored(k) ==
  CHOOSE t \in {usageEvents[k][i].timestamp : i \in 1..Len(usageEvents[k])} :
    \A i \in 1..Len(usageEvents[k]) : t <= usageEvents[k][i].timestamp

\* C16: when calculateOnboardingHealthScore is called without an explicit
\* start date, none is stored for the company and the company has at least
\* one stored event, the start date used is the timestamp of the company's
\* earliest stored event, whatever the age of that event.
C16_StartInferredFromEarliestEvent ==
  [][(/\ last'.op = "calculateOnboardingHealthScore"
      /\ last'.arg[2] = NULL
      /\ onboardingStartDates[last'.arg[1]] = NULL
      /\ usageEvents[last'.arg[1]] # << >>)
       => /\ startDateUsed(last'.result) = earliestStored(last'.arg[1])
          /\ last'.result.daysSinceOnboarding = now - earliestStored(last'.arg[1])]_vars

\* C17: a start date held in the per-company store is used by every later
\* onboarding computation without explicit date and is not changed by events
\* stored or cleared afterwards; an explicit start date overrides the stored
\* one for that call only and leaves the stored value unchanged.
C17_StartDatePrecedence ==
  [][/\ last'.op \in {"storeUsageEvent", "clearUsageEvents"}
          => onboardingStartDates' = onboardingStartDates
     /\ (/\ last'.op = "calculateOnboardingHealthScore"
         /\ last'.arg[2] = NULL
         /\ onboardingStartDates[last'.arg[1]] # NULL)
          => /\ startDateUsed(last'.result) = onboardingStartDates[last'.arg[1]]
             /\ last'.result.daysSinceOnboarding = now - onboardingStartDates[last'.arg[1]]
             /\ onboardingStartDates' = onboardingStartDates
     /\ (last'.op = "calculateOnboardingHealthScore" /\ last'.arg[2] # NULL)
          => /\ startDateUsed(last'.result) = last'.arg[2]
             /\ last'.result.daysSinceOnboarding = now - last'.arg[2]
             /\ onboardingStartDates' = onboardingStartDates]_vars

\* the start date of "a" was inferred from its event of five days ago and
\* persisted; the events were cleared since, a day has passed, and a call
\* with the explicit date of 14 days before the start has just been answered
\* from that date
C17_Witness ==
  /\ last.op = "calculateOnboardingHealthScore"
  /\ last.arg = <<"a", NowInit - 14>>
  /\ onboardingStartDates["a"] = NowInit - 5
  /\ usageEvents["a"] = << >>
  /\ now > NowInit
  /\ last.result.daysSinceOnboarding = now - (NowInit - 14)

(***************************************************************************)
(* Properties of the batch functions                                       *)
(***************************************************************************)
BatchScoreCalls ==
  {"batchCalculateScores", "batchCalculateMLTrends", "batchCalculateOnboardingScores",
   "batchCalculateExpansionPredictions"}

\* C19: every batch score function returns a list of the same length as its
\* input whose i-th result has the companyId of the i-th input id, unknown
\* and repeated ids included.
C19_BatchResultsInInputOrder ==
  last.op \in BatchScoreCalls =>
    /\ Len(last.result) = Len(last.arg)
    /\ \A i \in 1..Len(last.arg) : last.result[i].companyId = last.arg[i]

\* the renewal scores of "b" and of "b" again have been returned, while "b"
\* never stored an event and "a" holds one
C19_Witness ==
  /\ last.op = "batchCalculateScores"
  /\ last.arg = <<"b", "b">>
  /\ usageEvents["a"] # << >>
  /\ usageEvents["b"] = << >>
  /\ last.result[1] = last.result[2]
  /\ last.result[1].companyId = "b"

\* the items of a batch sync whose CRM call ended well, and the others
settledWell(s) == Cardinality({i \in 1..Len(s.outcomes) : s.outcomes[i] = "ok"})
settledBadly(s) == Cardinality({i \in 1..Len(s.outcomes) : s.outcomes[i] # "ok"})

\* C20: a batch sync (batchUpdateCompanyHealthScores, the sync-batch route,
\* batchCreateTimelineEvents) attempts every item exactly once in input order:
\* at every moment the items attempted are the items before the loop position,
\* whatever the earlier CRM calls did; a failed item does not fail the call;
\* and what the call reports is the number of items that went well and the
\* number that failed, which add up to the number of items.
C20_BatchSyncIsolatesFailures ==
  sync.op \in SyncOps =>
    /\ sync.attempted = SubSeq(sync.items, 1, sync.pos - 1)
    /\ Len(sync.outcomes) = Len(sync.attempted)
    /\ sync.returned =>
         /\ sync.attempted = sync.items
         /\ sync.success = settledWell(sync)
         /\ sync.failed = settledBadly(sync)
         /\ sync.success + sync.failed = Len(sync.items)
         /\ (last.op = sync.op /\ last.arg = sync.items /\ last.status # 400) =>
              /\ last.ok
              /\ last.result.failed = sync.failed
              /\ IF last.op = SyncRoute
                 THEN last.status = 200 /\ last.result.synced = sync.success
                 ELSE last.result.success = sync.success

\* a sync-batch request whose first company was rejected by the CRM and whose
\* second company was synced has been answered
C20_Witness ==
  /\ sync.returned
  /\ sync.op = SyncRoute
  /\ last.op = SyncRoute /\ last.status = 200
  /\ Len(sync.items) = 2
  /\ sync.outcomes = <<"rejected", "ok">>
  /\ last.result = [synced |-> 1, failed |-> 1]

\* the factors of a result whose impact is negative
negativeFactors(r) == {i \in 1..Len(r.factors) : r.factors[i].impact = "negative"}

\* C21: the recommendations of calculateRenewalHealthScore are at most 5, and
\* when riskLevel is critical or high the first one is the urgency message of
\* that level, however many negative factors added entries.
C21_UrgencyFirstOfAtMostFive ==
  last.op = "calculateRenewalHealthScore" =>
    LET r == last.result IN
      /\ Len(r.recommendations) <= 5
      /\ r.riskLevel = "critical" =>
           /\ r.recommendations # << >>
           /\ r.recommendations[1] = "URGENT: Immediate executive outreach required"
      /\ r.riskLevel = "high" =>
           /\ r.recommendations # << >>
           /\ r.recommendations[1] = "Priority: Schedule renewal discussion soon"

\* a high-risk score with three or more negative factors (seven entries before
\* the slice) has been returned
C21_Witness ==
  /\ last.op = "calculateRenewalHealthScore"
  /\ last.result.riskLevel = "high"
  /\ Cardinality(negativeFactors(last.result)) >= 3
  /\ Len(last.result.recommendations) = 5

\* the milestones of a result that satisfy P
milestonesWhere(r, P(_)) == {i \in 1..Len(r.milestones) : P(r.milestones[i])}

\* C22: the template has 9 milestones whose weights (hundredths) sum to 100,
\* and a result in which all 9 milestones are completed no later than their
\* expected dates has milestoneCoverageScore 100.
C22_AllOnTimeCoverage100 ==
  /\ Len(DEFAULT_MILESTONES) = 9
  /\ SumSeq([i \in 1..Len(DEFAULT_MILESTONES) |-> DEFAULT_MILESTONES[i].weight]) = 100
  /\ last.op = "calculateOnboardingHealthScore" =>
       LET r == last.result IN
         (/\ Len(r.milestones) = 9
          /\ \A i \in 1..9 : /\ r.milestones[i].completed
                            /\ r.milestones[i].completedAt <= r.milestones[i].expectedDate)
           => r.milestoneCoverageScore = 100

\* all 9 milestones were completed on their expected dates, none early, and the
\* score has been returned
C22_Witness ==
  /\ last.op = "calculateOnboardingHealthScore"
  /\ Len(last.result.milestones) = 9
  /\ \A i \in 1..9 : /\ last.result.milestones[i].completed
                    /\ last.result.milestones[i].completedAt = last.result.milestones[i].expectedDate

\* the calls that only read the event store
ReadingCalls == {"calculateRenewalHealthScore", "calculateMLUsageTrend", "calculateOnboardingHealthScore", "calculateExpansionPrediction", "calculateUsageTrends", "calculateFeatureAdoption"}

\* list s is list t or a prefix of it
isPrefix(s, t) == Len(s) <= Len(t) /\ s = SubSeq(t, 1, Len(s))

\* C23: a call of one of the four engines, of calculateUsageTrends or of
\* calculateFeatureAdoption leaves the stored list of every key as it was
\* (same events, same fields, same order); a step that changes the store is a
\* storeUsageEvent, a batchStoreUsageEvents or a clearUsageEvents; and the two
\* stores only append to the lists.
C23_EnginesOnlyRead ==
  [][/\ last'.op \in ReadingCalls => usageEvents' = usageEvents
     /\ usageEvents' # usageEvents =>
          last'.op \in {"storeUsageEvent", "batchStoreUsageEvents", "clearUsageEvents"}
     /\ last'.op \in {"storeUsageEvent", "batchStoreUsageEvents"} =>
          \A k \in Keys : isPrefix(usageEvents[k], usageEvents'[k])]_vars

\* the onboarding engine has inferred (and sorted for) a start date of a
\* company whose stored events are not in the order of their timestamps
C23_Witness ==
  /\ last.op = "calculateOnboardingHealthScore"
  /\ \E k \in Keys :
       /\ last.arg = <<k, NULL>>
       /\ Len(usageEvents[k]) = 2
       /\ usageEvents[k][1].timestamp > usageEvents[k][2].timestamp
       /\ onboardingStartDates[k] = usageEvents[k][2].timestamp
       /\ last.result.daysSinceOnboarding = now - usageEvents[k][2].timestamp

\* how many of the last four weekly buckets of a series carry the trend t
recentCount(trends, t) == Len(SelectSeq(lastFour(trends), LAMBDA x : x.trend = t))

\* C24: for a non-empty weekly series the Usage Trend factor of
\* calculateRenewalHealthScore follows the tiers over the last 4 buckets:
\* >= 3 increasing 100, >= 2 increasing 80, >= 3 decreasing 10, <= 1 decreasing
\* with >= 1 increasing 60, >= 2 decreasing 30, otherwise 50.
C24_TrendTiers ==
  last.op = "calculateRenewalHealthScore" =>
    LET trends == calculateUsageTrends(DB, last.arg[1])
        inc == recentCount(trends, "increasing")
        dec == recentCount(trends, "decreasing")
    IN  Len(trends) > 0 =>
          last.result.factors[3].value =
            (IF inc >= 3 THEN 100
             ELSE IF inc >= 2 THEN 80
             ELSE IF dec >= 3 THEN 10
             ELSE IF dec <= 1 /\ inc >= 1 THEN 60
             ELSE IF dec >= 2 THEN 30
             ELSE 50)

\* the completed aha-moment milestones of a result
completedAha(r) == milestonesWhere(r, LAMBDA m : m.isAhaMoment /\ m.completed)

\* C25: timeToFirstValue is null exactly when no aha-moment milestone is
\* completed; otherwise it is the number of days, never negative, from the
\* start date the call worked with to the earliest completion among the
\* completed aha-moment milestones.
C25_TimeToFirstValue ==
  last.op = "calculateOnboardingHealthScore" =>
    LET r == last.result IN
      /\ r.timeToFirstValue = << >> <=> completedAha(r) = {}
      /\ completedAha(r) # {} =>
           /\ r.timeToFirstValue[1] >= 0
           /\ \E i \in completedAha(r) :
                /\ r.timeToFirstValue[1] = r.milestones[i].completedAt - startDateUsed(r)
                /\ \A j \in completedAha(r) :
                     r.milestones[i].completedAt <= r.milestones[j].completedAt

\* C26: currentSeats is the number of distinct userIds among the events of the
\* last 30 days, raised to 1 only when the company has events; a company
\* without events has currentSeats 0 and utilizationPercent 0.
C26_NoEventsNoSeats ==
  last.op = "calculateExpansionPrediction" =>
    LET su == last.result.seatUtilization
        k == last.arg[1]
    IN  /\ activeUsers(k) # {} => su.currentSeats = Cardinality(activeUsers(k))
        /\ (activeUsers(k) = {} /\ usageEvents[k] # << >>) => su.currentSeats = 1
        /\ usageEvents[k] = << >> => (su.currentSeats = 0 /\ su.utilizationPercent = 0)

\* the rank of the cohort tier of the mean sum / count: one for each of the
\* thresholds 1 (At Risk), 5 (Casual), 10 (Active), 20 (Power User) reached
tierRank(sum, count) == Cardinality({t \in {1, 5, 10, 20} : sum >= t * count})

\* the events of key k per week, 12 weeks back, as the trend engine counts them
weeklyHistogram(k) == getWeeklyEventCounts(DB, getUsageEvents(DB, k, 90))

dueIncomplete(r) ==
  milestonesWhere(r, LAMBDA m : m.expectedByDay <= r.daysSinceOnboarding /\ ~m.completed)

milestoneHits(k, r, name) ==
  {e.timestamp : e \in {x \in Range(getUsageEvents(DB, k, Max(r.daysSinceOnboarding, 30))) :
                          \/ EVENT_TO_MILESTONE(x.eventType) = name
                          \/ (x.featureName # "" /\ EVENT_TO_MILESTONE(x.featureName) = name)}}

\* C29: a milestone of a returned onboarding score is completed exactly when
\* an event of the window maps to it, and its completedAt is then the earliest
\* timestamp among those events, whatever the order in which they were stored.
C29_CompletedAtIsEarliest ==
  last.op = "calculateOnboardingHealthScore" =>
    LET r == last.result IN
      \A i \in 1..Len(r.milestones) :
        LET hits == milestoneHits(last.arg[1], r, r.milestones[i].name) IN
          /\ r.milestones[i].completed <=> hits # {}
          /\ r.milestones[i].completed =>
               \A t \in hits : r.milestones[i].completedAt <= t

(***************************************************************************)
(* OAuth tokens: the token store, getHubSpotClient with its refresh of an  *)
(* expired token, GET /oauth/callback and DELETE /oauth/disconnect.        *)
(* Token times are on the clock of the model, in days; HubSpot's answers   *)
(* carry one of two access tokens and last under a day or one day.         *)
(***************************************************************************)
\* portal ids used by the callers
Portals == {"p1", "p2"}

\* getHubSpotClient calls that may await a refresh at the same time
MaxRefreshing == 2

setTokens(store, t, portalId, tokens) ==
  [q \in DOMAIN store \cup {portalId} |->
     IF q = portalId
       THEN [accessToken |-> tokens.accessToken, refreshToken |-> tokens.refreshToken,
             expiresAt |-> t + tokens.expiresIn]
       ELSE store[q]]

\* getHubSpotClient up to its await of refreshAccessToken, or to its return
\* when there is nothing to await; the buffer of five minutes is 0 days
GetHubSpotClient(portalId) ==
  LET isTokenExpired(p) ==
        IF p \notin DOMAIN tokenStore THEN TRUE ELSE tokenStore[p].expiresAt < now + 0
  IN
  /\ IF portalId \notin DOMAIN tokenStore
       THEN /\ last' = call("getHubSpotClient", portalId, FALSE, "No tokens found for portal", 0, << >>)
            /\ UNCHANGED refreshing
       ELSE IF isTokenExpired(portalId)
              THEN /\ BagCardinality(refreshing) < MaxRefreshing
                   /\ refreshing' = refreshing (+) SetToBag({[portalId |-> portalId,
                                      refreshToken |-> tokenStore[portalId].refreshToken]})
                   /\ UNCHANGED last
              ELSE /\ last' = call("getHubSpotClient", portalId, TRUE, "", 0,
                                   [accessToken |-> tokenStore[portalId].accessToken])
                   /\ UNCHANGED refreshing
  /\ UNCHANGED <<tokenStore, sync, usageEvents, seatData, onboardingStartDates, now, nextId, inflight, log>>

\* getHubSpotClient from the moment refreshAccessToken settles: it throws
\* when the request was rejected, else stores the new tokens and returns
GetHubSpotClientResumes(c, newTokens) ==
  /\ BagIn(c, refreshing)
  /\ refreshing' = refreshing (-) SetToBag({c})
  /\ IF newTokens.accessToken = ""
       THEN /\ last' = call("getHubSpotClient", c.portalId, FALSE, "Request failed", 0, << >>)
            /\ UNCHANGED tokenStore
       ELSE /\ tokenStore' = setTokens(tokenStore, now, c.portalId, newTokens)
            /\ last' = call("getHubSpotClient", c.portalId, TRUE, "", 0,
                            [accessToken |-> newTokens.accessToken])
  /\ UNCHANGED <<sync, usageEvents, seatData, onboardingStartDates, now, nextId, inflight, log>>

\* GET /oauth/callback; the handler touches the store only after its awaits
OAuthCallback(query, tokens, portalId) ==
  /\ IF query.error # ""
       THEN /\ last' = call("GET /oauth/callback", query, FALSE, "OAuth Error", 400, << >>)
            /\ UNCHANGED tokenStore
       ELSE IF query.code = ""
              THEN /\ last' = call("GET /oauth/callback", query, FALSE, "OAuth Error", 400, << >>)
                   /\ UNCHANGED tokenStore
              ELSE IF tokens.accessToken = ""
                     THEN /\ last' = call("GET /oauth/callback", query, FALSE, "OAuth Error", 500, << >>)
                          /\ UNCHANGED tokenStore
                     ELSE /\ tokenStore' = setTokens(tokenStore, now, portalId, tokens)
                          /\ last' = call("GET /oauth/callback", query, TRUE, "", 200, [portalId |-> portalId])
  /\ UNCHANGED <<refreshing, sync, usageEvents, seatData, onboardingStartDates, now, nextId, inflight, log>>

\* DELETE /oauth/disconnect/:portalId
Disconnect(portalId) ==
  /\ tokenStore' = [q \in DOMAIN tokenStore \ {portalId} |-> tokenStore[q]]
  /\ last' = call("DELETE /oauth/disconnect", portalId, TRUE, "", 200, << >>)
  /\ UNCHANGED <<refreshing, sync, usageEvents, seatData, onboardingStartDates, now, nextId, inflight, log>>

\* what the token endpoint answers: tokens, or no tokens when it rejects
NextTokens ==
  \/ \E p \in Portals : GetHubSpotClient(p)
  \/ \E c \in BagToSet(refreshing) :
       \E a \in {"", "at1", "at2"}, d \in {0, 1} :
         GetHubSpotClientResumes(c, [accessToken |-> a, refreshToken |-> "rt", expiresIn |-> d])
  \/ \E q \in {[code |-> "", error |-> "access_denied"], [code |-> "", error |-> ""],
               [code |-> "c1", error |-> ""]} :
       \E a \in {"", "at1", "at2"}, d \in {0, 1}, p \in Portals :
         OAuthCallback(q, [accessToken |-> a, refreshToken |-> "rt", expiresIn |-> d], p)
  \/ \E p \in Portals : Disconnect(p)
  \/ Tick

SpecTokens == Init /\ [][NextTokens]_vars

\* C30: a portal without tokens in the store gets tokens only by an OAuth
\* callback for that portal: after a disconnect the store holds no tokens
\* for the portal until a callback stores some, whichever getHubSpotClient
\* calls for the portal are awaiting a refresh.
C30_DisconnectedUntilCallback ==
  [][\A p \in Portals :
       (p \notin DOMAIN tokenStore /\ p \in DOMAIN tokenStore') =>
         (last'.op = "GET /oauth/callback" /\ last'.ok /\ last'.result.portalId = p)]_vars

====
